---- MODULE Spec2Model ----
(***************************************************************************)
(* pic-grabber: the page-scanning and deduplication engine of the browser  *)
(* extension, in its three content-script generations                      *)
(*   ID_  ImageDownloader        (src/js/content.js, download buttons)     *)
(*   CS_  ContextSnapDownloader  (src/js/content.js, side panel)           *)
(*   SB_  ImageDownloader        (src/unnamed/part_002, side panel)        *)
(* together with the pure helpers of ImageUtils.  The two classes of      *)
(* content.js keep separate ledgers and are modelled one at a time: what   *)
(* the button variant injects reaches ContextSnapDownloader as mutations   *)
(* of the page.  ImageUtils.getAllPossibleSources and                      *)
(* isPossibleImageSource are those of src/unnamed/part_007; src/js/utils.js*)
(* defines neither.                                                        *)
(*                                                                         *)
(* Scheduling.  The content script runs on the page's event loop.  A       *)
(* handler started by a task (runtime message, timer, storage reply, DOM   *)
(* event, page script) runs to its first await; every await in the         *)
(* scanning code waits on a promise that is already settled, so its        *)
(* continuation is a microtask, and the microtask queue is drained before  *)
(* the next task starts.  Mutation-observer callbacks are microtasks too.  *)
(* Task actions are therefore guarded by MicrotasksDrained; continuations  *)
(* and observer callbacks are not, and run in any order among themselves.  *)
(***************************************************************************)
EXTENDS Integers, Sequences, FiniteSets, TLC

VARIABLES
    b64Input,          \* ImageUtils.isBase64Image: the argument, as built
    b64Result,         \* ImageUtils.isBase64Image: the value returned
    fnInput,           \* ImageUtils.generateFileName: the argument, as built, and the clock
    fnResult           \* ImageUtils.generateFileName: the value returned

utilVars == <<b64Input, b64Result, fnInput, fnResult>>

VARIABLES
    dom,               \* the page's elements in document order (records, see Element)
    inDom,             \* the elements currently attached to the document
    records,           \* MutationRecords queued for the observer callback
    stored,            \* chrome.storage.local 'enabled': "true", "false" or "unset"
    blobs,             \* number of URL.createObjectURL calls so far (the next id)
    lastMutation       \* history: the page's latest DOM change since the latest clear signal

pageVars == <<dom, inDom, records, stored, blobs, lastMutation>>

VARIABLES
    constructed,       \* the content script has run its constructor
    enabled,           \* this.enabled
    storagePending,    \* initializeState is suspended at await chrome.storage.local.get
    processedElements, \* this.processedElements (WeakSet), as a set of element indices
    processedSources,  \* this.processedSources (Set)
    outbox,            \* history: the events emitted since the latest clear signal, it included
    scan,              \* the suspended scanImagesForSidebar / scanAllImages call
    prevScan,          \* history: what the scan before the latest clear signal emitted
    clearLedger,       \* history: the ledger as it stood right after the last reset statement
    rescanTimeout      \* ContextSnapDownloader.rescanTimeout: the debounce timer is armed

scannerVars == <<constructed, enabled, storagePending, processedElements, processedSources,
                 outbox, scan, prevScan, clearLedger, rescanTimeout>>

\* what the button variant injects into the page
VARIABLES
    wrapped,           \* page elements moved into a div.img-container of their own
    buttons,           \* page elements whose container holds a .download-btn
    floats             \* the span.img-container previews inserted so far, oldest first

markupVars == <<wrapped, buttons, floats>>

\* the side panel page (SidebarManager)
VARIABLES
    sidebar,           \* this.images, the .image-item children of #imagesContainer, the controls
    portLog,           \* history: the port message handled by the latest step, and the panel before it
    requests           \* the download clicks so far, each with the position of its handler

panelVars == <<sidebar, portLog, requests>>

\* what the document holds besides the elements of its body, and the clock
VARIABLES
    frames,            \* its iframes, in document order (see Frame)
    styles,            \* the textContent of its style elements, in document order
    clock,               \* the time in milliseconds
    timeouts,          \* the deadlines of the pending setTimeout timers, oldest first
    rescanLog,         \* what the debounced rescan has done so far (see NoRescanLog)
    relay,             \* the background's image cache and sidebar ports (see NoRelay)
    shot,              \* the screenshot requests of the popup (see NoShot)
    tracker,           \* the IntelligentTracker and its messages (see NoTracker)
    errorHandler,      \* the ErrorHandler of the background (see NoErrors)
    security,          \* chrome.storage.local and the SecurityManager (see NoSecurity)
    optimizer,         \* the ScreenshotOptimizer (see NoOptimizer)
    wire               \* the messages between tabs, background and side panel (see NoWire)

toolVars == <<security, optimizer, wire>>

auxVars == <<frames, styles, clock, timeouts, rescanLog, relay, shot, tracker, errorHandler,
             toolVars>>

vars == <<utilVars, pageVars, scannerVars, markupVars, panelVars, auxVars>>

(***************************************************************************)
(* Strings.  JavaScript strings are TLA+ strings; a character is a string  *)
(* of length one.                                                          *)
(***************************************************************************)
CharAt(s, i) == SubSeq(s, i, i)

Chars(s) == {CharAt(s, i) : i \in 1..Len(s)}

LowerLetters == "abcdefghijklmnopqrstuvwxyz"

UpperLetters == "ABCDEFGHIJKLMNOPQRSTUVWXYZ"

Digits == "0123456789"

startsWith(s, p) == Len(s) >= Len(p) /\ SubSeq(s, 1, Len(p)) = p

AllIn(s, from, to, class) == \A i \in from..to : CharAt(s, i) \in class

\* [a-zA-Z0-9-+.]
SubtypeClass == Chars(LowerLetters) \cup Chars(UpperLetters) \cup Chars(Digits) \cup {"-", "+", "."}

\* [A-Za-z0-9+/=]
Base64Class == Chars(LowerLetters) \cup Chars(UpperLetters) \cup Chars(Digits) \cup {"+", "/", "="}

(***************************************************************************)
(* A JavaScript value that is a string or null.                            *)
(***************************************************************************)
Null == [isNull |-> TRUE, str |-> ""]

Str(s) == [isNull |-> FALSE, str |-> s]

\* !str : null and the empty string are falsy
Falsy(v) == v.isNull \/ v.str = ""

(***************************************************************************)
(* ImageUtils.isBase64Image                                                *)
(*   /^data:image\/[a-zA-Z0-9-+.]+;base64,[A-Za-z0-9+/=]+$/.test(str)      *)
(* The two + groups are matched by choosing the end k of the subtype.      *)
(***************************************************************************)
base64Regex(s) ==
    \E k \in 12..(Len(s) - 9) :
        /\ SubSeq(s, 1, 11) = "data:image/"
        /\ AllIn(s, 12, k, SubtypeClass)
        /\ SubSeq(s, k + 1, k + 8) = ";base64,"
        /\ AllIn(s, k + 9, Len(s), Base64Class)

\* the body group written with * instead of +
base64RegexEmptyBody(s) ==
    \E k \in 12..(Len(s) - 8) :
        /\ SubSeq(s, 1, 11) = "data:image/"
        /\ AllIn(s, 12, k, SubtypeClass)
        /\ SubSeq(s, k + 1, k + 8) = ";base64,"
        /\ AllIn(s, k + 9, Len(s), Base64Class)

isBase64ImageLoose(v) ==
    IF Falsy(v) THEN FALSE
    ELSE IF ~startsWith(v.str, "data:image/") THEN FALSE
    ELSE base64RegexEmptyBody(v.str)

isBase64Image(v) ==
    IF Falsy(v) THEN FALSE
    ELSE IF ~startsWith(v.str, "data:image/") THEN FALSE
    ELSE base64Regex(v.str)

(***************************************************************************)
(* More string helpers for the regular expressions of the scanner.         *)
(***************************************************************************)
RECURSIVE toLowerCase(_)
toLowerCase(s) ==
    IF s = "" THEN ""
    ELSE LET c == CharAt(s, 1)
             l == IF c \in Chars(UpperLetters)
                  THEN CharAt(LowerLetters, CHOOSE i \in 1..26 : CharAt(UpperLetters, i) = c)
                  ELSE c
         IN  l \o toLowerCase(SubSeq(s, 2, Len(s)))

endsWith(s, p) == Len(s) >= Len(p) /\ SubSeq(s, Len(s) - Len(p) + 1, Len(s)) = p

\* index of the first c in s at or after from, 0 when there is none
indexOf(s, c, from) ==
    LET hits == {i \in from..Len(s) : CharAt(s, i) = c}
    IN  IF hits = {} THEN 0 ELSE CHOOSE i \in hits : \A j \in hits : i <= j

RECURSIVE removeQuotes(_)
removeQuotes(s) ==
    IF s = "" THEN ""
    ELSE (IF CharAt(s, 1) \in {"\"", "'"} THEN "" ELSE CharAt(s, 1))
         \o removeQuotes(SubSeq(s, 2, Len(s)))

RECURSIVE trim(_)
trim(s) ==
    IF s = "" THEN ""
    ELSE IF CharAt(s, 1) = " " THEN trim(SubSeq(s, 2, Len(s)))
    ELSE IF CharAt(s, Len(s)) = " " THEN trim(SubSeq(s, 1, Len(s) - 1))
    ELSE s

RECURSIVE split(_, _)
split(s, c) ==
    LET i == indexOf(s, c, 1)
    IN  IF i = 0 THEN <<s>>
        ELSE <<SubSeq(s, 1, i - 1)>> \o split(SubSeq(s, i + 1, Len(s)), c)

RECURSIVE Flatten(_)
Flatten(ss) == IF ss = <<>> THEN <<>> ELSE Head(ss) \o Flatten(Tail(ss))

Range(f) == {f[i] : i \in DOMAIN f}

\* \.(jpg|jpeg|png|gif|webp|svg|avif)$
ImageExtensions == {"jpg", "jpeg", "png", "gif", "webp", "svg", "avif"}

hasImageExtension(s) == \E x \in ImageExtensions : endsWith(s, "." \o x)

(***************************************************************************)
(* url(...) values of a CSS image property, as the scanners cut them out:  *)
(*   value.match(/url\(['"]?(.*?)['"]?\)/g)  then                          *)
(*   url.slice(4, -1).replace(/["']/g, "")                                 *)
(* Each match runs from "url(" to the first ")" that follows.              *)
(***************************************************************************)
RECURSIVE cssUrls(_)
cssUrls(value) ==
    LET starts == {i \in 1..(Len(value) - 3) : SubSeq(value, i, i + 3) = "url("}
        i == CHOOSE k \in starts : \A j \in starts : k <= j
        close == indexOf(value, ")", i + 4)
    IN  IF starts = {} \/ close = 0 THEN <<>>
        ELSE <<removeQuotes(SubSeq(value, i + 4, close - 1))>>
             \o cssUrls(SubSeq(value, close + 1, Len(value)))

(***************************************************************************)
(* ImageUtils.isPossibleImageSource                                        *)
(*   ext regex /i, data:image/ prefix, /^blob:/i, or                       *)
(*   /^https?:\/\/[^/]+\/[^?]+\?(.*&)?image/i                              *)
(***************************************************************************)
imageQueryRegex(s) ==
    LET l == toLowerCase(s)
        p == IF startsWith(l, "https://") THEN 8
             ELSE IF startsWith(l, "http://") THEN 7 ELSE 0
        slash == indexOf(l, "/", p + 1)
        query == indexOf(l, "?", slash + 1)
    IN  /\ p > 0
        /\ slash > p + 1
        /\ query > slash + 1
        /\ \E k \in (query + 1)..(Len(l) - 4) :
              /\ SubSeq(l, k, k + 4) = "image"
              /\ \/ k = query + 1
                 \/ CharAt(l, k - 1) = "&" /\ indexOf(l, "\n", query + 1) = 0

isPossibleImageSource(str) ==
    IF str = "" THEN FALSE
    ELSE \/ hasImageExtension(toLowerCase(str))
         \/ startsWith(str, "data:image/")
         \/ startsWith(toLowerCase(str), "blob:")
         \/ imageQueryRegex(str)

(***************************************************************************)
(* The page.  An element is a record of what the scanners read from it:    *)
(*   tag      tagName ("IMG", "CANVAS", "svg", "DIV")                      *)
(*   src      the src attribute / img.src ("" when absent)                 *)
(*   srcset   the srcset attribute                                         *)
(*   dataSrc  the data-src attribute                                       *)
(*   bg       getComputedStyle(element).backgroundImage                    *)
(*   valid    img.complete && naturalWidth !== 0 && naturalHeight !== 0    *)
(*   tainted  canvas.toDataURL throws (cross-origin content was drawn)     *)
(*   inShadow the element lies in the open shadow root of a host below     *)
(*            document.body, not in the document tree itself               *)
(* Page elements are leaves below document.body; URLs are absolute, so the *)
(* src property equals the attribute.                                      *)
(***************************************************************************)
Element(tag, src, srcset, dataSrc, bg, valid, tainted) ==
    [tag |-> tag, src |-> src, srcset |-> srcset, dataSrc |-> dataSrc, bg |-> bg,
     valid |-> valid, tainted |-> tainted, inShadow |-> FALSE]

UrlA == "https://x/a.png"

UrlB == "https://x/b.JPG"

UrlC == "https://x/c.png"

UrlPage == "https://x/page"

UrlBg == "https://x/bg.png"

CanvasDataUrl == "data:image/png;base64,iVBORw0KGgo="

InlineDataUrl == "data:image/gif;base64,R0lGOD=="

ImgA == Element("IMG", UrlA, "", "", "none", TRUE, FALSE)

ImgASrcset == Element("IMG", UrlB, UrlA \o " 1x, " \o UrlC \o " 2x", "", "none", TRUE, FALSE)

ImgLoading == Element("IMG", UrlC, "", "", "none", FALSE, FALSE)

ImgPage == Element("IMG", UrlPage, "", "", "none", TRUE, FALSE)

DivBg == Element("DIV", "", "", "", "url(\"" \o UrlBg \o "\")", FALSE, FALSE)

DivLazy == Element("DIV", "", "", InlineDataUrl, "none", FALSE, FALSE)

Canvas == Element("CANVAS", "", "", "", "none", FALSE, FALSE)

CanvasTainted == Element("CANVAS", "", "", UrlA, "none", FALSE, TRUE)

Svg == Element("svg", "", "", "", "none", FALSE, FALSE)

DivBgPage == Element("DIV", "", "", "", "url(\"" \o UrlPage \o "\")", FALSE, FALSE)

ImgShadow == [Element("IMG", UrlB, "", "", "none", TRUE, FALSE) EXCEPT !.inShadow = TRUE]

Shapes ==
    {ImgA, ImgASrcset, ImgLoading, ImgPage, DivBg, DivLazy, Canvas, CanvasTainted, Svg,
     DivBgPage, ImgShadow}

PageSize == 2

MaxBlobs == 4

Elems == 1..PageSize

\* the elements of the document with the given tag, in document order
getElementsByTagName(tag) ==
    SelectSeq([e \in Elems |-> e],
              LAMBDA e : e \in inDom /\ ~dom[e].inShadow /\ (tag = "*" \/ dom[e].tag = tag))

\* URL.createObjectURL: a URL that no earlier call returned
createObjectURL(n) == "blob:" \o CharAt(Digits, n + 1)

isValidImage(img) == img.valid

\* img.srcset.split(',').map(src => src.trim().split(' ')[0])
srcsetUrls(srcset) ==
    LET parts == split(srcset, ",")
    IN  [i \in 1..Len(parts) |-> Head(split(trim(parts[i]), " "))]

RECURSIVE Dedup(_)
Dedup(s) ==
    IF s = <<>> THEN <<>>
    ELSE LET r == Dedup(SubSeq(s, 1, Len(s) - 1))
         IN  IF s[Len(s)] \in Range(r) THEN r ELSE Append(r, s[Len(s)])

(***************************************************************************)
(* ImageUtils.getAllPossibleSources: attribute values that look like an    *)
(* image reference, then every url() of the inline and computed            *)
(* background-image; a Set, so each source once, in insertion order.       *)
(***************************************************************************)
attributeLooksLikeImage(value) ==
    /\ value # ""
    /\ \/ hasImageExtension(toLowerCase(value))
       \/ startsWith(value, "data:image/")
       \/ startsWith(toLowerCase(value), "blob:")

getAllPossibleSources(element) ==
    LET values == <<trim(element.src), trim(element.srcset), trim(element.dataSrc)>>
        fromAttributes == SelectSeq(values, attributeLooksLikeImage)
        fromStyle == IF element.bg # "none" THEN cssUrls(element.bg) ELSE <<>>
    IN  Dedup(fromAttributes \o fromStyle)

\* the same, tabulated once per shape of element
sourcesOf == [el \in Shapes |-> getAllPossibleSources(el)]

(***************************************************************************)
(* Events.  A message of the content script to the background (clearImages,*)
(* newImage, scanComplete).                                                *)
(***************************************************************************)
Msg(type, url) == [type |-> type, url |-> url]

NoScan == [active |-> FALSE, k |-> 0, n0 |-> 0, thrown |-> FALSE]

StartScan == [NoScan EXCEPT !.active = TRUE]

\* No continuation and no observer callback is queued: the next task may start.
MicrotasksDrained == ~scan.active /\ records = <<>>

NoMutation ==
    [kind |-> "none", node |-> 0, handled |-> FALSE, seenSrc |-> FALSE, emitted |-> 0,
     visited |-> FALSE, fresh |-> {}]

urlsOf(ob) == LET n == SelectSeq(ob, LAMBDA m : m.type = "newImage")
              IN  [i \in 1..Len(n) |-> n[i].url]

isComplete(ob) == ob # <<>> /\ ob[Len(ob)].type = "scanComplete"

(***************************************************************************)
(* SB_: ImageDownloader of src/unnamed/part_002 (side-panel generation).   *)
(*                                                                         *)
(* scanImagesForSidebar calls `await processImageForSidebar(element, src)` *)
(* once per candidate; SB_scanCalls lists these calls in program order.    *)
(* The call body runs synchronously and the scan is then suspended, so one *)
(* step of the scan runs from one await to the next.                       *)
(***************************************************************************)
Call(kind, src) == [kind |-> kind, src |-> src]

\* findBase64Images: the attribute values that pass isBase64Image.  (The two
\* background branches need "data:image" followed by a line feed and then
\* isBase64Image, which needs "data:image/": they never add anything.)
findBase64Images(element) ==
    SelectSeq(<<element.src, element.srcset, element.dataSrc>>,
              LAMBDA v : isBase64Image(Str(v)))

\* the calls one element contributes to each loop of scanImagesForSidebar
SB_elementCalls(el) ==
    [img |-> IF el.tag = "IMG" /\ isValidImage(el)
             THEN <<Call("src", el.src)>>
                  \o (IF el.srcset # ""
                      THEN LET u == srcsetUrls(el.srcset)
                           IN  [i \in 1..Len(u) |-> Call("srcset", u[i])]
                      ELSE <<>>)
             ELSE <<>>,
     bg |-> IF el.bg # "" /\ el.bg # "none"
            THEN LET u == cssUrls(el.bg) IN [i \in 1..Len(u) |-> Call("bg", u[i])]
            ELSE <<>>,
     canvas |-> IF el.tag = "CANVAS" /\ ~el.tainted
                THEN <<Call("canvas", CanvasDataUrl)>> ELSE <<>>,
     svg |-> IF el.tag = "svg" THEN <<Call("svg", "")>> ELSE <<>>,
     base64 |-> LET u == findBase64Images(el)
                IN  [i \in 1..Len(u) |-> Call("base64", u[i])]]

SB_callsOf == [el \in Shapes |-> SB_elementCalls(el)]

SB_scanCalls ==
    LET all == getElementsByTagName("*")
        loop(phase) == Flatten([i \in 1..Len(all) |-> SB_callsOf[dom[all[i]]][phase]])
    IN  loop("img") \o loop("bg") \o loop("canvas") \o loop("svg") \o loop("base64")

\* every string a scan can hand to processImageForSidebar, and the verdict of
\* isPossibleImageSource on it, tabulated once
Candidates ==
    UNION {{c.src : c \in Range(SB_callsOf[el][phase])} :
             el \in Shapes, phase \in {"img", "bg", "canvas", "svg", "base64"}}
    \cup {createObjectURL(n) : n \in 0..9}

possible == [u \in Candidates |-> isPossibleImageSource(u)]

\* processImageForSidebar(element, src): the result of one call
\* (for an svg the blob URL is created just before the call)
processImageForSidebar(c, ps, ob, nb) ==
    LET src == IF c.kind = "svg" THEN createObjectURL(nb) ELSE c.src
        emit == src # "" /\ possible[src] /\ src \notin ps
    IN  [ps |-> IF emit THEN ps \cup {src} ELSE ps,
         ob |-> IF emit THEN Append(ob, Msg("newImage", src)) ELSE ob,
         nb |-> IF c.kind = "svg" THEN nb + 1 ELSE nb]

\* scanImagesForSidebar from the await after call k to the next await, or to
\* its end when no call is left
SB_resume(sc, ps, ob, nb) ==
    LET calls == SB_scanCalls
    IN  IF sc.k < Len(calls)
        THEN LET r == processImageForSidebar(calls[sc.k + 1], ps, ob, nb)
             IN  /\ scan' = [sc EXCEPT !.active = TRUE, !.k = sc.k + 1]
                 /\ processedSources' = r.ps
                 /\ outbox' = r.ob
                 /\ blobs' = r.nb
        ELSE /\ scan' = NoScan
             /\ processedSources' = ps
             /\ outbox' = Append(ob, Msg("scanComplete", ""))
             /\ blobs' = nb

\* what the history variables keep when a clear signal starts a new epoch
StartEpoch(elements, sources, fromObserver) ==
    /\ prevScan' = IF isComplete(outbox) /\ lastMutation.kind = "none"
                   THEN [known |-> TRUE, urls |-> urlsOf(outbox)]
                   ELSE [known |-> FALSE, urls |-> <<>>]
    /\ lastMutation' = NoMutation
    /\ clearLedger' = [elements |-> elements, sources |-> sources,
                       fromObserver |-> fromObserver]

\* scanImagesForSidebar, called: returns at once while disabled; otherwise
\* sends clearImages, replaces processedSources and runs to its first await
SB_scanImagesForSidebar(on) ==
    IF ~on
    THEN UNCHANGED <<scan, processedSources, outbox, blobs, prevScan, lastMutation, clearLedger>>
    ELSE /\ StartEpoch(processedElements, {}, FALSE)
         /\ SB_resume(StartScan, {}, <<Msg("clearImages", "")>>, blobs)

SB_constructor ==
    /\ ~constructed
    /\ constructed' = TRUE
    /\ enabled' = TRUE
    /\ storagePending' = TRUE
    /\ SB_scanImagesForSidebar(TRUE)
    /\ UNCHANGED <<dom, inDom, records, stored, processedElements>>

\* initializeState after `await chrome.storage.local.get(['enabled'])`
SB_initializeState ==
    /\ constructed /\ storagePending /\ MicrotasksDrained
    /\ storagePending' = FALSE
    /\ enabled' = (stored # "false")
    /\ SB_scanImagesForSidebar(stored # "false")
    /\ UNCHANGED <<constructed, dom, inDom, records, stored, processedElements>>

\* a task may start a scan only while blob URLs are left to hand out
BlobsLeft == blobs + Len(getElementsByTagName("svg")) <= MaxBlobs

\* chrome.runtime.onMessage listener
SB_onMessage(message) ==
    /\ constructed /\ MicrotasksDrained /\ BlobsLeft
    /\ IF message.type = "scanImagesForSidebar"
       THEN /\ SB_scanImagesForSidebar(enabled)
            /\ UNCHANGED enabled
       ELSE /\ message.type = "toggleExtension"
            /\ enabled' = message.enabled
            /\ SB_scanImagesForSidebar(message.enabled)
    /\ UNCHANGED <<constructed, storagePending, dom, inDom, records, stored, processedElements>>

SB_scanStep ==
    /\ scan.active
    /\ SB_resume(scan, processedSources, outbox, blobs)
    /\ UNCHANGED <<constructed, enabled, storagePending, processedElements, prevScan,
                   clearLedger, dom, inDom, records, stored, lastMutation>>

\* processElement: marks the element and every source it exposes
SB_processElement(e, ledger) ==
    IF e \in ledger.elements THEN ledger
    ELSE [elements |-> ledger.elements \cup {e},
          sources |-> ledger.sources \cup Range(sourcesOf[dom[e]])]

\* The MutationObserver callback on a batch of records.  Page elements are
\* leaves, so deepScanElement(node) is processElement(node) followed by awaits
\* that find nothing more to do.
RECURSIVE SB_processRecords(_, _)
SB_processRecords(rs, ledger) ==
    IF rs = <<>> THEN ledger
    ELSE SB_processRecords(Tail(rs), SB_processElement(Head(rs).node, ledger))

SB_observerCallback ==
    /\ constructed /\ records # <<>>
    /\ LET l == SB_processRecords(records,
                    [elements |-> processedElements, sources |-> processedSources])
       IN  /\ processedElements' = l.elements
           /\ processedSources' = l.sources
    /\ records' = <<>>
    /\ lastMutation' = [lastMutation EXCEPT !.handled = TRUE]
    /\ UNCHANGED <<constructed, enabled, storagePending, outbox, scan, prevScan,
                   clearLedger, dom, inDom, stored, blobs>>

(***************************************************************************)
(* Page scripts: a task that inserts a detached element, or moves an       *)
(* attached one, below document.body.  Either way the observer is handed a *)
(* childList record whose addedNodes holds the node.  lastMutation notes   *)
(* whether the node's src was in the ledger and emitted when the task ran. *)
(***************************************************************************)
MutationRecord(type, e) == [type |-> type, node |-> e]

count(ob, url) == Len(SelectSeq(ob, LAMBDA m : m.type = "newImage" /\ m.url = url))

Mutation(kind, e) ==
    [kind |-> kind, node |-> e, handled |-> FALSE,
     seenSrc |-> dom[e].src \in processedSources,
     emitted |-> count(outbox, dom[e].src),
     visited |-> e \in processedElements, fresh |-> {}]

PageInsert(e) ==
    /\ constructed /\ MicrotasksDrained
    /\ e \notin inDom
    /\ inDom' = inDom \cup {e}
    /\ records' = IF dom[e].inShadow THEN <<>> ELSE <<MutationRecord("childList", e)>>
    /\ lastMutation' = Mutation("insert", e)
    /\ UNCHANGED <<dom, stored, blobs, constructed, enabled, storagePending, processedElements,
                   processedSources, outbox, scan, prevScan, clearLedger>>

PageMove(e) ==
    /\ constructed /\ MicrotasksDrained
    /\ e \in inDom
    /\ records' = <<MutationRecord("childList", e)>>
    /\ lastMutation' = Mutation("move", e)
    /\ UNCHANGED <<dom, inDom, stored, blobs, constructed, enabled, storagePending,
                   processedElements, processedSources, outbox, scan, prevScan, clearLedger>>

\* A page script sets the src, the style or the data-src attribute of an
\* attached element (an img may finish loading with it): one attributes
\* record for the element.  lastMutation notes whether the element had been
\* visited and which of its sources are new to it, to the ledger and to the
\* events emitted so far.
PageSetAttribute(e, to) ==
    /\ constructed /\ MicrotasksDrained
    /\ e \in inDom
    /\ to.tag = dom[e].tag /\ to.srcset = dom[e].srcset /\ to.tainted = dom[e].tainted
    /\ to.inShadow = dom[e].inShadow
    /\ <<to.src, to.bg, to.dataSrc>> # <<dom[e].src, dom[e].bg, dom[e].dataSrc>>
    /\ dom' = [dom EXCEPT ![e] = to]
    /\ records' = <<MutationRecord("attributes", e)>>
    /\ lastMutation' =
          [kind |-> "attribute", node |-> e, handled |-> FALSE,
           seenSrc |-> to.src \in processedSources,
           emitted |-> count(outbox, to.src),
           visited |-> e \in processedElements,
           fresh |-> {u \in Range(sourcesOf[to]) \ Range(sourcesOf[dom[e]]) :
                        /\ u \notin processedSources
                        /\ \A i \in 1..Len(outbox) : outbox[i].url # u}]
    /\ UNCHANGED <<inDom, stored, blobs, constructed, enabled, storagePending, processedElements,
                   processedSources, outbox, scan, prevScan, clearLedger>>

PageInit(shapes) ==
    /\ dom \in [Elems -> shapes]
    /\ inDom \in {Elems, Elems \ {PageSize}}
    /\ records = <<>>
    /\ stored \in {"unset", "false"}
    /\ blobs = 0
    /\ lastMutation = NoMutation

ScannerInit ==
    /\ constructed = FALSE
    /\ enabled = FALSE
    /\ storagePending = FALSE
    /\ processedElements = {}
    /\ processedSources = {}
    /\ outbox = <<>>
    /\ scan = NoScan
    /\ prevScan = [known |-> FALSE, urls |-> <<>>]
    /\ clearLedger = [elements |-> {}, sources |-> {}, fromObserver |-> FALSE]
    /\ rescanTimeout = FALSE
    /\ wrapped = {}
    /\ buttons = {}
    /\ floats = <<>>

\* batches: the observer callbacks that armed the timer; lastBatch: when the
\* latest of them ran (-1: never); bursts:
\* the runs of such batches, a batch joining the run of the one before it
\* when it comes less than RescanDelay after it; scans and skipped: the
\* timer callbacks that started a scan, and those that found the extension
\* disabled; callAt and callFor: when the latest timer callback ran, and
\* the lastBatch it ran for
NoRescanLog ==
    [batches |-> 0, lastBatch |-> -1, bursts |-> 0, scans |-> 0, skipped |-> 0, callAt |-> 0, callFor |-> -1]

\* time 0 with no timer
ClockIdle ==
    /\ clock = 0
    /\ timeouts = <<>>
    /\ rescanLog = NoRescanLog

MaxPorts == 2

Ports == 1..MaxPorts

\* The background script as loaded: sidebarImages (a Map, kept as its values
\* in insertion order) and sidebarPorts are empty.  sent[p] lists what was
\* posted to the port sidebar p holds while it is connected; handled
\* counts the messages the listener took, last is the handler that ran last.
NoRelay ==
    [version |-> "part_003", images |-> <<>>, ports |-> {},
     sent |-> [p \in Ports |-> <<>>], handled |-> 0, last |-> "none"]

\* The popup as opened, and nothing of a screenshot on its way.  stage is
\* where captureScreenshot of the popup stands; toContent are the
\* captureScreenshot messages the content script has not taken yet,
\* returned the listener calls that came back without an answer,
\* toBackground the messages the background has not taken, fromBackground
\* its answers on their way to the content script, stored the screenshots
\* processScreenshot has put into storage.
NoShot ==
    [clicks |-> 0, stage |-> "idle", loading |-> FALSE, disabled |-> FALSE,
     screenshotCount |-> 0, feedback |-> "none",
     toContent |-> 0, returned |-> 0, toBackground |-> 0, fromBackground |-> <<>>,
     stored |-> 0]

\* The IntelligentTracker as constructed.  events holds the numbers of the
\* buffered events (the n-th recorded event is n); interactionCount is the
\* field of engagementMetrics, one per recorded event; batches lists the
\* events arrays handed to chrome.runtime.sendMessage, sending the messages
\* the background has not taken yet, branches the branch of its listener
\* each message it took ran into.
NoTracker ==
    [events |-> <<>>, interactionCount |-> 0, batches |-> <<>>, sending |-> <<>>,
     branches |-> <<>>]

ErrorContexts == {"screenshot", "fetch"}

MaxWindow == 2

\* The ErrorHandler as constructed.  circuitBreaker maps a context to the
\* end of its cooldown, -1 where the Map has no entry; handled counts the
\* handleError calls per context and per window of errorWindow ms; logged
\* counts the log-error messages sent.
NoErrors ==
    [errorCount |-> 0,
     circuitBreaker |-> [c \in ErrorContexts |-> -1],
     handled |-> [c \in ErrorContexts |-> [w \in 0..MaxWindow |-> 0]],
     logged |-> 0]

\* chrome.storage.local without entries and a SecurityManager that was not
\* called.  storage maps the keys present to their values; now is Date.now()
\* in seconds; cleanup is the cleanupOldData call in progress or the latest
\* one (before and after are the storage around its remove); sanitized is
\* the latest sanitizeData call.
NoSecurity ==
    [now |-> 0, advanced |-> 0, storage |-> <<>>,
     cleanup |-> [stage |-> "idle", cutoff |-> 0, keysToDelete |-> {},
                  before |-> <<>>, after |-> <<>>],
     sanitized |-> [called |-> FALSE, data |-> <<>>, result |-> <<>>]]

Tabs == 1..2

\* No side panel open and nothing under way.  open: a SidebarManager lives;
\* connecting: its chrome.runtime.connect has not reached the background
\* yet; toContent: the scanImagesForSidebar messages on their way to the
\* content script of the active tab; toBackground: the messages content
\* scripts have sent to the background, in the order sent; awaiting: the
\* panel has requested a scan and taken no scanComplete since; opens
\* counts the panels opened; tabs: what the scan of each tab's content
\* script has sent so far, <<>> while it does not scan; scans counts the
\* scans the tabs have started.
NoWire ==
    [open |-> FALSE, connecting |-> FALSE, toContent |-> 0, toBackground |-> <<>>,
     awaiting |-> FALSE, opens |-> 0, tabs |-> [t \in Tabs |-> <<>>], scans |-> 0]

\* The ScreenshotOptimizer as constructed: quality 0.8 (see Quality).
NoOptimizer ==
    [quality |-> [tenths |-> 8, above |-> FALSE], calls |-> 0,
     last |-> [called |-> FALSE]]

\* neither relay nor popup nor tracker nor error handler has done anything
BackgroundIdle ==
    /\ relay = NoRelay
    /\ shot = NoShot
    /\ tracker = NoTracker
    /\ errorHandler = NoErrors
    /\ security = NoSecurity
    /\ optimizer = NoOptimizer
    /\ wire = NoWire

\* a document without iframes and style elements, and an idle background
AuxIdle ==
    /\ frames = <<>>
    /\ styles = <<>>
    /\ ClockIdle
    /\ BackgroundIdle

UtilsIdle ==
    /\ b64Input = Null
    /\ b64Result = [called |-> FALSE, value |-> FALSE]
    /\ fnInput = Null
    /\ fnResult = [called |-> FALSE, value |-> ""]

\* the panel right after clearImages: no image stored, no item, the loading
\* message shown; the controls keep their values
SM_cleared(sb) == [sb EXCEPT !.images = <<>>, !.items = <<>>, !.loading = "loading"]

NoPortMessage == [type |-> "none", images |-> <<>>, before |-> <<>>]

\* the panel after the SidebarManager constructor: requestImageScan has
\* cleared it; the search box is empty, the filter is 'all', the sort 'name'
PanelIdle ==
    /\ sidebar = [images |-> <<>>, items |-> <<>>, loading |-> "loading",
                  currentFilter |-> "all", currentSort |-> "name", searchTerm |-> ""]
    /\ portLog = NoPortMessage
    /\ requests = <<>>

Messages ==
    {[type |-> "scanImagesForSidebar", enabled |-> TRUE]}
    \cup {[type |-> "toggleExtension", enabled |-> b] : b \in BOOLEAN}

\* the elements the side-panel scan tells apart
SB_Shapes == {ImgA, ImgASrcset, ImgPage, DivBg, CanvasTainted, Svg}

InitSB == UtilsIdle /\ PanelIdle /\ AuxIdle /\ PageInit(SB_Shapes) /\ ScannerInit

NextSB ==
    \/ SB_constructor /\ UNCHANGED <<utilVars, auxVars, panelVars, rescanTimeout, markupVars>>
    \/ SB_initializeState /\ UNCHANGED <<utilVars, auxVars, panelVars, rescanTimeout, markupVars>>
    \/ \E m \in Messages : SB_onMessage(m) /\ UNCHANGED <<utilVars, auxVars, panelVars, rescanTimeout, markupVars>>
    \/ SB_scanStep /\ UNCHANGED <<utilVars, auxVars, panelVars, rescanTimeout, markupVars>>
    \/ SB_observerCallback /\ UNCHANGED <<utilVars, auxVars, panelVars, rescanTimeout, markupVars>>
    \/ \E e \in Elems : PageInsert(e) /\ UNCHANGED <<utilVars, auxVars, panelVars, rescanTimeout, markupVars>>
    \/ \E e \in Elems : PageMove(e) /\ UNCHANGED <<utilVars, auxVars, panelVars, rescanTimeout, markupVars>>

SpecSB == InitSB /\ [][NextSB]_vars

(***************************************************************************)
(* CS_: ContextSnapDownloader of src/js/content.js.                        *)
(*                                                                         *)
(* scanImagesForSidebar awaits processImageForSidebar for the src and the  *)
(* srcset entries of every valid img; what follows the last await runs in  *)
(* one piece: canvases are marked, processBackgroundImage and              *)
(* findBase64Images write to processedSources, scanComplete is sent.       *)
(* processSVG creates a blob URL and drops it.  The pages of this model    *)
(* carry no text, so findBase64Images finds no match in textContent.       *)
(***************************************************************************)
CS_imgCalls(el) ==
    IF el.tag = "IMG" /\ isValidImage(el)
    THEN <<el.src>> \o (IF el.srcset # "" THEN srcsetUrls(el.srcset) ELSE <<>>)
    ELSE <<>>

CS_callsOf == [el \in Shapes |-> CS_imgCalls(el)]

CS_scanCalls ==
    LET images == getElementsByTagName("IMG")
    IN  Flatten([i \in 1..Len(images) |-> CS_callsOf[dom[images[i]]]])

\* bgImage.match(/url\("?(.*?\.(?:jpg|jpeg|png|gif|webp|svg|avif))["']?\)/g)
\* and url.slice(4, -1).replace(/["']/g, "") on each match
RECURSIVE bgImageUrls(_)
bgImageUrls(value) ==
    LET starts == {i \in 1..(Len(value) - 3) : SubSeq(value, i, i + 3) = "url("}
        ends(i) == {j \in (i + 4)..Len(value) :
                      /\ CharAt(value, j) = ")"
                      /\ hasImageExtension(SubSeq(value, i + 4,
                             IF CharAt(value, j - 1) \in {"\"", "'"} THEN j - 2 ELSE j - 1))}
        ok == {i \in starts : ends(i) # {}}
        i == CHOOSE k \in ok : \A l \in ok : k <= l
        j == CHOOSE k \in ends(i) : \A l \in ends(i) : k <= l
    IN  IF ok = {} THEN <<>>
        ELSE <<removeQuotes(SubSeq(value, i + 4, j - 1))>>
             \o bgImageUrls(SubSeq(value, j + 1, Len(value)))

\* processBackgroundImage: the sources it adds to processedSources
CS_processBackgroundImage(el) == Range(bgImageUrls(el.bg))

CS_backgroundOf == [el \in Shapes |-> CS_processBackgroundImage(el)]

\* the inner processImageForSidebar(element, src)
CS_processImageForSidebar(src, ps, ob) ==
    LET emit == src # "" /\ possible[src] /\ src \notin ps
    IN  [ps |-> IF emit THEN ps \cup {src} ELSE ps,
         ob |-> IF emit THEN Append(ob, Msg("newImage", src)) ELSE ob]

\* the same scan without the final sendMessage({ type: 'scanComplete' })
CS_resumeNoComplete(sc, ps, ob) ==
    LET calls == CS_scanCalls
    IN  IF sc.k < Len(calls)
        THEN LET r == CS_processImageForSidebar(calls[sc.k + 1], ps, ob)
             IN  /\ scan' = [sc EXCEPT !.active = TRUE, !.k = sc.k + 1]
                 /\ processedSources' = r.ps
                 /\ outbox' = r.ob
                 /\ UNCHANGED processedElements
        ELSE /\ scan' = NoScan
             /\ processedElements' =
                    processedElements \cup Range(getElementsByTagName("CANVAS"))
             /\ processedSources' =
                    ps \cup UNION {CS_backgroundOf[dom[e]] : e \in inDom}
             /\ outbox' = ob

\* scanImagesForSidebar from one await to the next, or through its last piece
CS_resume(sc, ps, ob) ==
    LET calls == CS_scanCalls
    IN  IF sc.k < Len(calls)
        THEN LET r == CS_processImageForSidebar(calls[sc.k + 1], ps, ob)
             IN  /\ scan' = [sc EXCEPT !.active = TRUE, !.k = sc.k + 1]
                 /\ processedSources' = r.ps
                 /\ outbox' = r.ob
                 /\ UNCHANGED processedElements
        ELSE /\ scan' = NoScan
             /\ processedElements' =
                    processedElements \cup Range(getElementsByTagName("CANVAS"))
             /\ processedSources' =
                    ps \cup UNION {CS_backgroundOf[dom[e]] : e \in inDom}
             /\ outbox' = Append(ob, Msg("scanComplete", ""))

CS_scanImagesForSidebar(on, fromObserver) ==
    IF ~on
    THEN UNCHANGED <<scan, processedSources, processedElements, outbox, prevScan,
                     lastMutation, clearLedger>>
    ELSE /\ StartEpoch(processedElements, {}, fromObserver)
         /\ CS_resume(StartScan, {}, <<Msg("clearImages", "")>>)

CS_constructor ==
    /\ ~constructed
    /\ constructed' = TRUE
    /\ enabled' = TRUE
    /\ storagePending' = TRUE
    /\ CS_scanImagesForSidebar(TRUE, FALSE)
    /\ UNCHANGED <<dom, inDom, records, stored, blobs, rescanTimeout>>

CS_initializeState ==
    /\ constructed /\ storagePending /\ MicrotasksDrained
    /\ storagePending' = FALSE
    /\ enabled' = (stored # "false")
    /\ CS_scanImagesForSidebar(stored # "false", FALSE)
    /\ UNCHANGED <<constructed, dom, inDom, records, stored, blobs, rescanTimeout>>

CS_onMessage(message) ==
    /\ constructed /\ MicrotasksDrained
    /\ IF message.type = "scanImagesForSidebar"
       THEN /\ CS_scanImagesForSidebar(enabled, FALSE)
            /\ UNCHANGED enabled
       ELSE /\ message.type = "toggleExtension"
            /\ enabled' = message.enabled
            /\ CS_scanImagesForSidebar(message.enabled, FALSE)
    /\ UNCHANGED <<constructed, storagePending, dom, inDom, records, stored, blobs,
                   rescanTimeout>>

CS_scanStep ==
    /\ scan.active
    /\ CS_resume(scan, processedSources, outbox)
    /\ UNCHANGED <<constructed, enabled, storagePending, prevScan, clearLedger, rescanTimeout,
                   dom, inDom, records, stored, blobs, lastMutation>>

\* The MutationObserver callback: an added IMG arms (or re-arms) the timer.
CS_observerCallback ==
    /\ constructed /\ records # <<>>
    /\ LET shouldRescan == \E i \in 1..Len(records) :
                               /\ records[i].type = "childList"
                               /\ dom[records[i].node].tag = "IMG"
       IN  rescanTimeout' = IF shouldRescan /\ enabled THEN TRUE ELSE rescanTimeout
    /\ records' = <<>>
    /\ lastMutation' = [lastMutation EXCEPT !.handled = TRUE]
    /\ UNCHANGED <<constructed, enabled, storagePending, processedElements, processedSources,
                   outbox, scan, prevScan, clearLedger, dom, inDom, stored, blobs>>

\* setTimeout(() => this.scanImagesForSidebar(), 1000) fires
CS_rescanTimer ==
    /\ rescanTimeout /\ MicrotasksDrained
    /\ rescanTimeout' = FALSE
    /\ CS_scanImagesForSidebar(enabled, TRUE)
    /\ UNCHANGED <<constructed, enabled, storagePending, dom, inDom, records, stored, blobs>>

\* the elements ContextSnapDownloader tells apart
CS_Shapes == {ImgA, ImgASrcset, ImgLoading, ImgPage, DivBg, Canvas}

InitCS == UtilsIdle /\ PanelIdle /\ AuxIdle /\ PageInit(CS_Shapes) /\ ScannerInit

NextCS ==
    \/ CS_constructor /\ UNCHANGED <<utilVars, auxVars, panelVars, markupVars>>
    \/ CS_initializeState /\ UNCHANGED <<utilVars, auxVars, panelVars, markupVars>>
    \/ \E m \in Messages : CS_onMessage(m) /\ UNCHANGED <<utilVars, auxVars, panelVars, markupVars>>
    \/ CS_scanStep /\ UNCHANGED <<utilVars, auxVars, panelVars, markupVars>>
    \/ CS_observerCallback /\ UNCHANGED <<utilVars, auxVars, panelVars, markupVars>>
    \/ CS_rescanTimer /\ UNCHANGED <<utilVars, auxVars, panelVars, markupVars>>
    \/ \E e \in Elems : PageInsert(e) /\ UNCHANGED <<utilVars, auxVars, panelVars, rescanTimeout, markupVars>>
    \/ \E e \in Elems : PageMove(e) /\ UNCHANGED <<utilVars, auxVars, panelVars, rescanTimeout, markupVars>>

SpecCS == InitCS /\ [][NextCS]_vars

(***************************************************************************)
(* ContextSnapDownloader with the clock.  Time moves in steps of half a    *)
(* RescanDelay; a timer runs at its deadline, before time moves on.  The   *)
(* observer callback is a microtask of the script that changed the page,   *)
(* so it runs at the same time as the change.                              *)
(***************************************************************************)
RescanDelay == 1000

MaxTicks == 5

MaxBatches == 3

Instants == {i * (RescanDelay \div 2) : i \in 0..MaxTicks}

\* clearTimeout(this.rescanTimeout): the timer the field names is the one
\* set last; clearing a timer that has run does nothing
clearTimeoutNoop(pending, armed) == pending

clearTimeout(pending, armed) ==
    IF armed /\ pending # <<>> THEN SubSeq(pending, 1, Len(pending) - 1) ELSE pending

setTimeout(pending, delay) == Append(pending, clock + delay)

CS_shouldRescan ==
    \E i \in 1..Len(records) :
        /\ records[i].type = "childList"
        /\ dom[records[i].node].tag = "IMG"

CS_observerCallbackAt ==
    /\ CS_observerCallback
    /\ IF CS_shouldRescan /\ enabled
       THEN LET last == rescanLog.lastBatch
                joins == /\ last >= 0
                         /\ \/ clock - last < RescanDelay
                            \/ clock - last = RescanDelay /\ timeouts # <<>>
            IN  /\ timeouts' = setTimeout(clearTimeout(timeouts, rescanTimeout), RescanDelay)
                /\ rescanLog' = [rescanLog EXCEPT !.batches = @ + 1,
                                                  !.lastBatch = clock,
                                                  !.bursts = IF joins THEN @ ELSE @ + 1]
       ELSE UNCHANGED <<timeouts, rescanLog>>
    /\ UNCHANGED <<toolVars, frames, styles, clock, relay, shot, tracker, errorHandler>>

CS_rescanTimerAt ==
    /\ timeouts # <<>> /\ timeouts[1] <= clock
    /\ CS_rescanTimer
    /\ timeouts' = Tail(timeouts)
    /\ rescanLog' = [rescanLog EXCEPT !.scans = IF enabled THEN @ + 1 ELSE @,
                                      !.skipped = IF enabled THEN @ ELSE @ + 1,
                                      !.callAt = clock,
                                      !.callFor = rescanLog.lastBatch]
    /\ UNCHANGED <<toolVars, frames, styles, clock, relay, shot, tracker, errorHandler>>

\* time passes while nothing is due
Tick ==
    /\ MicrotasksDrained
    /\ \A i \in 1..Len(timeouts) : clock < timeouts[i]
    /\ clock + (RescanDelay \div 2) \in Instants
    /\ clock' = clock + (RescanDelay \div 2)
    /\ UNCHANGED <<toolVars, frames, styles, timeouts, rescanLog, relay, shot, tracker, errorHandler, utilVars,
                   pageVars, scannerVars, markupVars, panelVars>>

InitCSTimed == UtilsIdle /\ PanelIdle /\ AuxIdle /\ PageInit({ImgA, DivBg}) /\ ScannerInit

NextCSTimed ==
    \/ CS_constructor /\ UNCHANGED <<utilVars, auxVars, panelVars, markupVars>>
    \/ CS_initializeState /\ UNCHANGED <<utilVars, auxVars, panelVars, markupVars>>
    \/ \E m \in Messages : CS_onMessage(m) /\ UNCHANGED <<utilVars, auxVars, panelVars, markupVars>>
    \/ CS_scanStep /\ UNCHANGED <<utilVars, auxVars, panelVars, markupVars>>
    \/ CS_observerCallbackAt /\ UNCHANGED <<utilVars, panelVars, markupVars>>
    \/ CS_rescanTimerAt /\ UNCHANGED <<utilVars, panelVars, markupVars>>
    \/ \E e \in Elems : PageInsert(e) /\ UNCHANGED <<utilVars, auxVars, panelVars, rescanTimeout, markupVars>>
    \/ \E e \in Elems :
            /\ rescanLog.batches < MaxBatches
            /\ PageMove(e) /\ UNCHANGED <<utilVars, auxVars, panelVars, rescanTimeout, markupVars>>
    \/ Tick

SpecCSTimed == InitCSTimed /\ [][NextCSTimed]_vars

(***************************************************************************)
(* ID_: the download-button ImageDownloader of src/js/content.js.          *)
(*                                                                         *)
(* Its discovered event is a .download-btn appended by                     *)
(* createDownloadButton; outbox lists the buttons created since the latest *)
(* ledger reset, and "finished" once scanAllImages logs its last line.     *)
(* The scanner's own insertions reach its observer in the same microtask   *)
(* checkpoint: the callback finds a wrapper, a button, or a preview whose  *)
(* src was added to the ledger just before, so all it changes is the mark  *)
(* of the preview, which createFloatingDownloadButton sets here.           *)
(* The pages carry no comments.  An iframe is a Frame: whether its         *)
(* document can be reached from the page, and the one element of that      *)
(* document that exposes a source; the element of frames[j] has the id -j. *)
(* A preview inserted after a style element has the host 0.                *)
(***************************************************************************)
MaxFloats == 2

Frame(sameOrigin, element) == [sameOrigin |-> sameOrigin, element |-> element]

\* the element with the id e, in the page or in the document of a frame
elementAt(e) == IF e < 0 THEN frames[-e].element ELSE dom[e]

(***************************************************************************)
(* The urls the style-tag pass of scanAllImages cuts out of a style text:  *)
(*   cssText.match(/url\("?(.*?\.(?:jpg|jpeg|png|gif|webp|svg|avif))["']?\)/gi) *)
(*   url.slice(4, -1).replace(/["']/g, "")                                 *)
(* A match runs from "url(" to the first ")" that an image extension and   *)
(* at most one quote precede.                                              *)
(***************************************************************************)
styleMatchEnd(l, i) ==
    LET ends == {c \in (i + 4)..Len(l) :
                    /\ CharAt(l, c) = ")"
                    /\ \/ hasImageExtension(SubSeq(l, i + 4, c - 1))
                       \/ /\ c - 2 >= i + 4
                          /\ CharAt(l, c - 1) \in {"\"", "'"}
                          /\ hasImageExtension(SubSeq(l, i + 4, c - 2))}
    IN  IF ends = {} THEN 0 ELSE CHOOSE c \in ends : \A d \in ends : c <= d

RECURSIVE styleUrls(_)
styleUrls(cssText) ==
    LET l == toLowerCase(cssText)
        starts == {i \in 1..(Len(l) - 3) :
                      SubSeq(l, i, i + 3) = "url(" /\ styleMatchEnd(l, i) # 0}
        i == CHOOSE k \in starts : \A j \in starts : k <= j
        close == styleMatchEnd(l, i)
    IN  IF starts = {} THEN <<>>
        ELSE <<removeQuotes(SubSeq(cssText, i + 4, close - 1))>>
             \o styleUrls(SubSeq(cssText, close + 1, Len(cssText)))

Work(pe, ps, w, b, f, ob) ==
    [pe |-> pe, ps |-> ps, wrapped |-> w, buttons |-> b, floats |-> f, ob |-> ob,
     thrown |-> FALSE]

Current == Work(processedElements, processedSources, wrapped, buttons, floats, outbox)

Node(kind, id) == [kind |-> kind, id |-> id]

\* createDownloadButton without its `if (!this.enabled) return`
ID_createDownloadButtonAlways(e, imageUrl, st, on) ==
    LET s1 == [st EXCEPT !.wrapped = @ \cup {e}]
    IN  IF e \in st.buttons THEN s1
        ELSE [s1 EXCEPT !.buttons = @ \cup {e},
                        !.ob = Append(@, Msg("button", imageUrl))]

\* createDownloadButton(element, imageUrl) on a page element
ID_createDownloadButton(e, imageUrl, st, on) ==
    IF ~on THEN st
    ELSE LET s1 == [st EXCEPT !.wrapped = @ \cup {e}]
         IN  IF e \in st.buttons THEN s1
             ELSE [s1 EXCEPT !.buttons = @ \cup {e},
                             !.ob = Append(@, Msg("button", imageUrl))]

\* createDownloadButton(preview, imageUrl): the container is the float itself
ID_createPreviewButton(j, imageUrl, st, on) ==
    IF ~on \/ st.floats[j].button THEN st
    ELSE [st EXCEPT !.floats[j].button = TRUE,
                    !.ob = Append(@, Msg("button", imageUrl))]

\* createFloatingDownloadButton(node, src): a span.img-container with a
\* preview img, a button while enabled, inserted after the node
ID_createFloatingDownloadButton(e, src, st, on) ==
    [st EXCEPT !.floats = Append(@, [host |-> e, src |-> src, button |-> on, seen |-> TRUE]),
               !.ob = IF on THEN Append(@, Msg("button", src)) ELSE @]

\* the computed-style block of processElement
RECURSIVE ID_computedStyle(_, _, _, _)
ID_computedStyle(e, urls, st, on) ==
    IF urls = <<>> THEN st
    ELSE LET cleanUrl == Head(urls)
             s1 == IF cleanUrl \notin st.ps /\ possible[cleanUrl]
                   THEN ID_createFloatingDownloadButton(e, cleanUrl,
                            [st EXCEPT !.ps = @ \cup {cleanUrl}], on)
                   ELSE st
         IN  ID_computedStyle(e, Tail(urls), s1, on)

\* the body of `for (const src of sources)` in processElement, source by
\* source; element.toDataURL throws on a tainted canvas
RECURSIVE ID_forSources(_, _, _, _)
ID_forSources(e, sources, st, on) ==
    IF sources = <<>> \/ st.thrown THEN st
    ELSE LET src == Head(sources)
             el == elementAt(e)
             marked == [st EXCEPT !.ps = @ \cup {src}]
             s1 == IF src \in st.ps THEN st
                   ELSE IF el.tag = "IMG" THEN ID_createDownloadButton(e, src, marked, on)
                   ELSE ID_createFloatingDownloadButton(e, src, marked, on)
             s2 == IF el.tag # "CANVAS" THEN s1
                   ELSE IF el.tainted THEN [s1 EXCEPT !.thrown = TRUE]
                   ELSE IF CanvasDataUrl \in s1.ps THEN s1
                   ELSE ID_createDownloadButton(e, CanvasDataUrl,
                            [s1 EXCEPT !.ps = @ \cup {CanvasDataUrl}], on)
             s3 == IF s2.thrown \/ el.bg = "" \/ el.bg = "none" THEN s2
                   ELSE ID_computedStyle(e, cssUrls(el.bg), s2, on)
         IN  ID_forSources(e, Tail(sources), s3, on)

ID_processElement(e, st, on) ==
    IF e \in st.pe THEN st
    ELSE ID_forSources(e, sourcesOf[elementAt(e)], [st EXCEPT !.pe = @ \cup {e}], on)

\* getAllPossibleSources of a preview img: its src when it looks like an image
previewSources == [u \in Candidates |-> IF attributeLooksLikeImage(u) THEN <<u>> ELSE <<>>]

\* processElement on the preview img of float j
ID_processPreview(j, st, on) ==
    IF st.floats[j].seen THEN st
    ELSE LET s0 == [st EXCEPT !.floats[j].seen = TRUE]
             srcs == previewSources[st.floats[j].src]
         IN  IF srcs = <<>> \/ srcs[1] \in s0.ps THEN s0
             ELSE ID_createPreviewButton(j, srcs[1], [s0 EXCEPT !.ps = @ \cup {srcs[1]}], on)

ID_processNode(n, st, on) ==
    IF n.kind = "element" THEN ID_processElement(n.id, st, on)
    ELSE ID_processPreview(n.id, st, on)

\* The elements of the document that expose a source, in document order:
\* each page element is followed by the previews inserted after it, the
\* latest first.  Only the first n0 floats are listed.
RECURSIVE ID_previewsOf(_, _)
ID_previewsOf(e, n0) ==
    IF n0 = 0 THEN <<>>
    ELSE (IF floats[n0].host = e THEN <<Node("preview", n0)>> ELSE <<>>)
         \o ID_previewsOf(e, n0 - 1)

ID_querySelectorAll(n0) ==
    LET all == getElementsByTagName("*")
    IN  ID_previewsOf(0, n0)
        \o Flatten([i \in 1..Len(all) |-> <<Node("element", all[i])>> \o ID_previewsOf(all[i], n0)])

\* deepScanElement over the nodes of one document, until a node throws
RECURSIVE ID_deepScanElement(_, _, _)
ID_deepScanElement(nodes, st, on) ==
    IF nodes = <<>> \/ st.thrown THEN st
    ELSE ID_deepScanElement(Tail(nodes), ID_processNode(Head(nodes), st, on), on)

\* the body of `for (const frame of frames)` without its try and catch
ID_scanFrameNoCatch(j, n0, st, on) ==
    IF ~frames[j].sameOrigin THEN [st EXCEPT !.thrown = TRUE]
    ELSE ID_deepScanElement(<<Node("element", -j)>> \o ID_previewsOf(-j, n0), st, on)

\* the body of `for (const frame of frames)` in scanAllImages: reading the
\* document of a cross-origin frame throws, and so may an element of a
\* frame; the catch logs either and the loop goes on
ID_scanFrame(j, n0, st, on) ==
    IF ~frames[j].sameOrigin THEN st
    ELSE [ID_deepScanElement(<<Node("element", -j)>> \o ID_previewsOf(-j, n0), st, on)
             EXCEPT !.thrown = FALSE]

\* the urls.forEach of the style-tag pass
RECURSIVE ID_styleUrls(_, _, _)
ID_styleUrls(urls, st, on) ==
    IF urls = <<>> THEN st
    ELSE LET cleanUrl == Head(urls)
             s1 == IF cleanUrl \in st.ps THEN st
                   ELSE ID_createFloatingDownloadButton(0, cleanUrl,
                            [st EXCEPT !.ps = @ \cup {cleanUrl}], on)
         IN  ID_styleUrls(Tail(urls), s1, on)

\* `for (const style of styles)` in scanAllImages
ID_styleTags(st, on) ==
    ID_styleUrls(Flatten([i \in 1..Len(styles) |-> styleUrls(styles[i])]), st, on)

\* the primed variables a piece of work leaves behind
Commit(st) ==
    /\ processedElements' = st.pe
    /\ processedSources' = st.ps
    /\ wrapped' = st.wrapped
    /\ buttons' = st.buttons
    /\ floats' = st.floats
    /\ outbox' = st.ob

\* removeAllButtons that also empties the ledger
ID_removeAllButtonsAndLedger(st) ==
    [st EXCEPT !.pe = {}, !.ps = {}, !.buttons = {e \in @ : e < 0},
               !.floats = [j \in 1..Len(@) |->
                              IF @[j].host < 0 THEN @[j] ELSE [@[j] EXCEPT !.button = FALSE]]]

\* removeAllButtons: every .download-btn leaves the page, containers stay
\* (document.querySelectorAll does not reach the documents of frames)
ID_removeAllButtons(st) ==
    [st EXCEPT !.buttons = {e \in @ : e < 0},
               !.floats = [j \in 1..Len(@) |->
                              IF @[j].host < 0 THEN @[j] ELSE [@[j] EXCEPT !.button = FALSE]]]

\* processImage(img) on a page img or on a preview (loaded: it is complete)
ID_processImage(n, st, loaded) ==
    IF n.kind = "element"
    THEN IF n.id \in st.pe \/ ~isValidImage(dom[n.id]) THEN st
         ELSE ID_createDownloadButton(n.id, dom[n.id].src, [st EXCEPT !.pe = @ \cup {n.id}], TRUE)
    ELSE IF st.floats[n.id].seen \/ n.id \notin loaded THEN st
         ELSE ID_createPreviewButton(n.id, st.floats[n.id].src,
                  [st EXCEPT !.floats[n.id].seen = TRUE], TRUE)

RECURSIVE ID_processImages(_, _, _)
ID_processImages(images, st, loaded) ==
    IF images = <<>> THEN st
    ELSE ID_processImages(Tail(images), ID_processImage(Head(images), st, loaded), loaded)

\* processExistingImages over document.getElementsByTagName('img')
ID_processExistingImages(st, loaded) ==
    LET images == SelectSeq(ID_querySelectorAll(Len(floats)),
                            LAMBDA n : n.kind = "preview" \/ dom[n.id].tag = "IMG")
    IN  ID_processImages(images, st, loaded)

\* scanAllImages up to its first await: both ledger sets are replaced, the
\* buttons removed, and processElement(document.documentElement) has run
ID_scanAllImages ==
    /\ StartEpoch({}, {}, FALSE)
    /\ Commit(ID_removeAllButtons(
           Work({}, {}, wrapped, buttons,
                [j \in 1..Len(floats) |-> [floats[j] EXCEPT !.seen = FALSE]], <<>>)))
    /\ scan' = [StartScan EXCEPT !.n0 = Len(floats)]

ID_constructor ==
    /\ ~constructed
    /\ constructed' = TRUE
    /\ enabled' = TRUE
    /\ storagePending' = TRUE
    /\ UNCHANGED <<pageVars, processedElements, processedSources, outbox, scan, prevScan,
                   clearLedger, markupVars>>

\* initializeState after `await chrome.storage.local.get(['enabled'])`
ID_initializeState ==
    /\ constructed /\ storagePending /\ MicrotasksDrained
    /\ storagePending' = FALSE
    /\ enabled' = (stored # "false")
    /\ IF stored # "false"
       THEN \E loaded \in SUBSET (1..Len(floats)) :
                Commit(ID_processExistingImages(Current, loaded))
       ELSE Commit(ID_removeAllButtons(Current))
    /\ UNCHANGED <<constructed, pageVars, scan, prevScan, clearLedger>>

\* a task starts a scan only while float containers are left to hand out
FloatsLeft == Len(floats) < MaxFloats

\* chrome.runtime.onMessage listener
ID_onMessage(message) ==
    /\ constructed /\ MicrotasksDrained
    /\ IF message.type = "scanImages"
       THEN /\ enabled /\ FloatsLeft
            /\ ID_scanAllImages
            /\ UNCHANGED <<enabled, dom, inDom, records, stored, blobs>>
       ELSE /\ message.type = "toggleExtension"
            /\ enabled' = message.enabled
            /\ IF ~message.enabled
               THEN /\ Commit(ID_removeAllButtons(Current))
                    /\ UNCHANGED <<pageVars, scan, prevScan, clearLedger>>
               ELSE /\ FloatsLeft
                    /\ ID_scanAllImages
                    /\ UNCHANGED <<dom, inDom, records, stored, blobs>>
    /\ UNCHANGED <<constructed, storagePending>>

\* scanAllImages from one await to the next, and from one frame to the
\* next: the elements of the page, then the frames, then the style-tag pass
\* and the last line.  An exception of processElement on the page rejects
\* the scan, which then never logs its last line.
ID_scanStep ==
    /\ scan.active
    /\ LET nodes == ID_querySelectorAll(scan.n0)
       IN  IF scan.k < Len(nodes)
           THEN LET st == ID_processNode(nodes[scan.k + 1], Current, enabled)
                IN  /\ Commit(st)
                    /\ scan' = IF st.thrown THEN [NoScan EXCEPT !.thrown = TRUE]
                               ELSE [scan EXCEPT !.k = @ + 1]
           ELSE IF scan.k < Len(nodes) + Len(frames)
           THEN LET st == ID_scanFrame(scan.k - Len(nodes) + 1, scan.n0, Current, enabled)
                IN  /\ Commit(st)
                    /\ scan' = IF st.thrown THEN [NoScan EXCEPT !.thrown = TRUE]
                               ELSE [scan EXCEPT !.k = @ + 1]
           ELSE /\ Commit([ID_styleTags(Current, enabled)
                              EXCEPT !.ob = Append(@, Msg("finished", ""))])
                /\ scan' = NoScan
    /\ UNCHANGED <<constructed, enabled, storagePending, prevScan, clearLedger, pageVars>>

\* The MutationObserver callback on the records of a page script: each added
\* node gets deepScanElement, whose first processElement runs at once; page
\* elements are leaves.  A rejected deepScanElement is dropped.
RECURSIVE ID_processRecords(_, _, _)
ID_processRecords(rs, st, on) ==
    IF rs = <<>> THEN st
    ELSE ID_processRecords(Tail(rs),
             [ID_processElement(Head(rs).node, st, on) EXCEPT !.thrown = FALSE], on)

ID_observerCallback ==
    /\ constructed /\ records # <<>>
    /\ Commit(ID_processRecords(records, Current, enabled))
    /\ records' = <<>>
    /\ lastMutation' = [lastMutation EXCEPT !.handled = TRUE]
    /\ UNCHANGED <<constructed, enabled, storagePending, scan, prevScan, clearLedger,
                   dom, inDom, stored, blobs>>

\* the capturing mouseup listener, on a canvas of the page
ID_mouseup(e) ==
    /\ constructed /\ MicrotasksDrained
    /\ e \in inDom /\ dom[e].tag = "CANVAS"
    /\ IF e \notin processedElements /\ ~dom[e].tainted
       THEN Commit(ID_createDownloadButton(e, CanvasDataUrl, Current, enabled))
       ELSE UNCHANGED <<processedElements, processedSources, outbox, markupVars>>
    /\ UNCHANGED <<constructed, enabled, storagePending, scan, prevScan, clearLedger, pageVars>>

ScanMessages ==
    {[type |-> "scanImages", enabled |-> TRUE]}
    \cup {[type |-> "toggleExtension", enabled |-> b] : b \in BOOLEAN}

\* the elements the button variant tells apart
ID_Shapes == {ImgA, ImgLoading, DivBg, Canvas, CanvasTainted}

InitID == UtilsIdle /\ PanelIdle /\ AuxIdle /\ PageInit(ID_Shapes) /\ ScannerInit

NextID ==
    \/ ID_constructor /\ UNCHANGED <<utilVars, auxVars, panelVars, rescanTimeout>>
    \/ ID_initializeState /\ UNCHANGED <<utilVars, auxVars, panelVars, rescanTimeout>>
    \/ \E m \in ScanMessages : ID_onMessage(m) /\ UNCHANGED <<utilVars, auxVars, panelVars, rescanTimeout>>
    \/ ID_scanStep /\ UNCHANGED <<utilVars, auxVars, panelVars, rescanTimeout>>
    \/ ID_observerCallback /\ UNCHANGED <<utilVars, auxVars, panelVars, rescanTimeout>>
    \/ \E e \in Elems : ID_mouseup(e) /\ UNCHANGED <<utilVars, auxVars, panelVars, rescanTimeout>>
    \/ \E e \in Elems : PageInsert(e) /\ UNCHANGED <<utilVars, auxVars, panelVars, rescanTimeout, markupVars>>

SpecID == InitID /\ [][NextID]_vars

(***************************************************************************)
(* Specification SpecIDStill: the button variant on a page whose scripts   *)
(* change nothing, so that only the scanner touches the document.          *)
(***************************************************************************)
NextIDStill ==
    \/ ID_constructor /\ UNCHANGED <<utilVars, auxVars, panelVars, rescanTimeout>>
    \/ ID_initializeState /\ UNCHANGED <<utilVars, auxVars, panelVars, rescanTimeout>>
    \/ \E m \in ScanMessages : ID_onMessage(m) /\ UNCHANGED <<utilVars, auxVars, panelVars, rescanTimeout>>
    \/ ID_scanStep /\ UNCHANGED <<utilVars, auxVars, panelVars, rescanTimeout>>

SpecIDStill == InitID /\ [][NextIDStill]_vars

(***************************************************************************)
(* Specification SpecIDAttr: the button variant on a page that may hold an *)
(* img inside a shadow tree and whose scripts also change the src, style   *)
(* and data-src attributes of its elements.                                *)
(***************************************************************************)
InitIDAttr == UtilsIdle /\ PanelIdle /\ AuxIdle /\ PageInit(ID_Shapes \cup {ImgShadow}) /\ ScannerInit

NextIDAttr ==
    \/ NextID
    \/ \E e \in Elems, to \in {ImgA, ImgLoading, DivBg, DivLazy, DivBgPage} :
            PageSetAttribute(e, to) /\ UNCHANGED <<utilVars, auxVars, panelVars, rescanTimeout, markupVars>>

SpecIDAttr == InitIDAttr /\ [][NextIDAttr]_vars

(***************************************************************************)
(* The injected overlay on a document with iframes and style elements.     *)
(* A frame is cross-origin or not; its document holds an img that is still *)
(* loading or a tainted canvas, whose toDataURL throws inside the try.     *)
(***************************************************************************)
MaxFrames == 2

Frames == {Frame(FALSE, ImgLoading), Frame(TRUE, ImgLoading), Frame(TRUE, CanvasTainted)}

StyleTexts ==
    {"a{background:url(\"" \o UrlBg \o "\")}", "a{background:url(" \o UrlPage \o ")}"}

InitIDFrames ==
    /\ UtilsIdle /\ PanelIdle /\ PageInit({ImgA, Canvas}) /\ ScannerInit
    /\ ClockIdle /\ BackgroundIdle
    /\ frames \in [1..MaxFrames -> Frames]
    /\ styles \in {<<>>} \cup {<<t>> : t \in StyleTexts}

SpecIDFrames == InitIDFrames /\ [][NextID]_vars

(***************************************************************************)
(* Specification SpecUtils: the pure functions of ImageUtils applied to    *)
(* arguments assembled from a head, a subtype, a marker and a body.        *)
(***************************************************************************)
B64Heads == {"data:image/", "data:image", "data:text/", "Data:Image/", ""}

B64Subtypes == {"png", "svg+xml", "x-icon", "", "p ng"}

B64Markers == {";base64,", ",", ";base64", ";BASE64,"}

B64Bodies == {"iVBORw0KGgo=", "a/b+c=", "", "notbase64", "AB CD", "AA==\n"}

B64Inputs ==
    {[isNull |-> FALSE, head |-> h, subtype |-> t, marker |-> m, body |-> b,
      str |-> h \o t \o m \o b] :
        h \in B64Heads, t \in B64Subtypes, m \in B64Markers, b \in B64Bodies}
    \cup {[isNull |-> TRUE, head |-> "", subtype |-> "", marker |-> "", body |-> "", str |-> ""]}

PageIdle ==
    /\ dom = <<>>
    /\ inDom = {}
    /\ records = <<>>
    /\ stored = "unset"
    /\ blobs = 0
    /\ lastMutation = NoMutation

(***************************************************************************)
(* new URL(url), as far as generateFileName uses it: an absolute http(s)   *)
(* URL parses, and its pathname runs from the first "/" after the host to  *)
(* the query or fragment ("/" when the URL has no path); anything without  *)
(* a scheme throws.                                                        *)
(***************************************************************************)
parseURL(url) ==
    LET scheme == IF startsWith(url, "https://") THEN "https://"
                  ELSE IF startsWith(url, "http://") THEN "http://" ELSE ""
        rest == SubSeq(url, Len(scheme) + 1, Len(url))
        q == indexOf(rest, "?", 1)
        h == indexOf(rest, "#", 1)
        stop == IF q = 0 /\ h = 0 THEN Len(rest) + 1
                ELSE IF q = 0 THEN h ELSE IF h = 0 THEN q ELSE IF q < h THEN q ELSE h
        noTail == SubSeq(rest, 1, stop - 1)
        slash == indexOf(noTail, "/", 1)
        host == IF slash = 0 THEN noTail ELSE SubSeq(noTail, 1, slash - 1)
    IN  IF scheme = "" \/ host = "" THEN [ok |-> FALSE, pathname |-> ""]
        ELSE [ok |-> TRUE,
              pathname |-> IF slash = 0 THEN "/" ELSE SubSeq(noTail, slash, Len(noTail))]

\* url.match(/^data:image\/([a-zA-Z0-9-+.]+);base64,/): the captured subtype (never empty), "" without a match
dataImageSubtype(url) ==
    LET head == "data:image/"
        semi == indexOf(url, ";", Len(head) + 1)
    IN  IF /\ startsWith(url, head)
           /\ semi > Len(head) + 1
           /\ AllIn(url, Len(head) + 1, semi - 1, SubtypeClass)
           /\ startsWith(SubSeq(url, semi, Len(url)), ";base64,")
        THEN SubSeq(url, Len(head) + 1, semi - 1)
        ELSE ""

\* /\.(jpg|jpeg|png|gif|webp|svg|avif|bmp|ico|tiff|heic|jfif)$/i
FileNameExtensions ==
    {"jpg", "jpeg", "png", "gif", "webp", "svg", "avif", "bmp", "ico", "tiff", "heic", "jfif"}

\* the variant whose extension test lacks the i flag
generateFileNameCaseSensitive(url, now) ==
    IF startsWith(url, "data:image")
    THEN LET matches == dataImageSubtype(url)
         IN  "image_" \o now \o "." \o (IF matches = "" THEN "png" ELSE matches)
    ELSE LET urlObj == parseURL(url)
             pathSegments == split(urlObj.pathname, "/")
             fileName == pathSegments[Len(pathSegments)]
         IN  IF ~urlObj.ok THEN "image_" \o now \o ".png"
             ELSE IF ~\E x \in FileNameExtensions : endsWith(fileName, "." \o x)
                  THEN "image_" \o now \o ".png"
                  ELSE fileName

\* ImageUtils.generateFileName; now is the value of Date.now()
generateFileName(url, now) ==
    IF startsWith(url, "data:image")
    THEN LET matches == dataImageSubtype(url)
         IN  "image_" \o now \o "." \o (IF matches = "" THEN "png" ELSE matches)
    ELSE LET urlObj == parseURL(url)
             pathSegments == split(urlObj.pathname, "/")
             fileName == pathSegments[Len(pathSegments)]
         IN  IF ~urlObj.ok THEN "image_" \o now \o ".png"
             ELSE IF ~\E x \in FileNameExtensions : endsWith(toLowerCase(fileName), "." \o x)
                  THEN "image_" \o now \o ".png"
                  ELSE fileName

\* the earlier ImageUtils.generateFileName, which appends ".jpg" to the segment
generateFileNameOld(url, now) ==
    IF startsWith(url, "data:image")
    THEN LET parts == split(split(url, ";")[1], "/")
         IN  "image_" \o now \o "." \o (IF Len(parts) >= 2 THEN parts[2] ELSE "undefined")
    ELSE LET urlObj == parseURL(url)
             pathSegments == split(urlObj.pathname, "/")
             fileName == pathSegments[Len(pathSegments)]
         IN  IF ~urlObj.ok THEN "image_" \o now \o ".jpg"
             ELSE IF ~hasImageExtension(toLowerCase(fileName))
                  THEN fileName \o ".jpg"
                  ELSE fileName

\* arguments assembled from a head, a directory, a last segment and a tail; a clock value
FnInputs ==
    {[head |-> h, dir |-> d, segment |-> g, tail |-> t, now |-> n, version |-> v,
      url |-> h \o d \o g \o t] :
        h \in {"https://site.com", "http://cdn.site.com", "site.com", "",
               "data:image/png;base64,AAAA"},
        d \in {"/path/", "/"},
        g \in {"photo.JPG", "photo.png", "a.jpeg", "noext", "file.txt", "x.bmp", "jpg", ""},
        t \in {"", "?v=1.gif", "#top"},
        n \in {"1700000000000", "1700000000001"},
        v \in {"utils.js", "part_006"}}

InitUtils ==
    /\ PageIdle /\ ScannerInit /\ PanelIdle /\ AuxIdle
    /\ \/ /\ b64Input \in B64Inputs
          /\ fnInput = Null
       \/ /\ b64Input = Null
          /\ fnInput \in FnInputs
    /\ b64Result = [called |-> FALSE, value |-> FALSE]
    /\ fnResult = [called |-> FALSE, value |-> ""]

CallIsBase64Image ==
    /\ b64Input # Null
    /\ ~b64Result.called
    /\ b64Result' = [called |-> TRUE, value |-> isBase64Image(b64Input)]
    /\ UNCHANGED <<b64Input, fnInput, fnResult, pageVars, scannerVars, markupVars, panelVars, auxVars>>

CallGenerateFileName ==
    /\ fnInput # Null
    /\ ~fnResult.called
    /\ fnResult' = [called |-> TRUE,
                    value |-> IF fnInput.version = "utils.js"
                              THEN generateFileName(fnInput.url, fnInput.now)
                              ELSE generateFileNameOld(fnInput.url, fnInput.now)]
    /\ UNCHANGED <<b64Input, b64Result, fnInput, pageVars, scannerVars, markupVars, panelVars, auxVars>>

NextUtils ==
    \/ CallIsBase64Image
    \/ CallGenerateFileName

SpecUtils == InitUtils /\ [][NextUtils]_vars

(***************************************************************************)
(* Specification SpecSM: the side panel (SidebarManager, src/js/sidebar.js) *)
(* under the messages of its port and the clicks on its controls.  The     *)
(* store this.images is the sequence of its entries; the rendered          *)
(* list is the sequence of .image-item children of #imagesContainer.       *)
(***************************************************************************)
ImageData(url, filename, dimensions) ==
    [url |-> url, filename |-> filename, dimensions |-> dimensions]

\* what the content script reports: two reports of UrlA differ in dimensions
SM_Data ==
    {ImageData(UrlA, "a.png", "100x80"), ImageData(UrlA, "a.png", "Unknown"),
     ImageData(UrlB, "b.JPG", "640x480"), ImageData(UrlPage, "image_17.tiff", "20x20")}

\* the keys of this.images, a Map kept as its entries in insertion order
keys(images) == {images[i].url : i \in 1..Len(images)}

getImageType(filename) ==
    LET parts == split(filename, ".")
        extension == toLowerCase(parts[Len(parts)])
    IN  IF extension \in ImageExtensions THEN extension ELSE "other"

\* String.prototype.includes
includes(s, t) == \E i \in 1..(Len(s) - Len(t) + 1) : SubSeq(s, i, i + Len(t) - 1) = t

\* a.localeCompare(b) < 0, for names that differ before case matters
CollationOrder == "_-.0123456789abcdefghijklmnopqrstuvwxyz"

RECURSIVE localeBefore(_, _)
localeBefore(a, b) ==
    IF b = "" THEN FALSE
    ELSE IF a = "" THEN TRUE
    ELSE LET ra == indexOf(CollationOrder, CharAt(toLowerCase(a), 1), 1)
             rb == indexOf(CollationOrder, CharAt(toLowerCase(b), 1), 1)
         IN  IF ra # rb THEN ra < rb
             ELSE localeBefore(SubSeq(a, 2, Len(a)), SubSeq(b, 2, Len(b)))

\* Number(s) || 0 for the width in front of the "x" of a dimensions text
RECURSIVE widthOf(_, _)
widthOf(s, acc) ==
    IF s = "" THEN acc
    ELSE IF CharAt(s, 1) \notin Chars(Digits) THEN 0
    ELSE widthOf(SubSeq(s, 2, Len(s)), 10 * acc + indexOf(Digits, CharAt(s, 1), 1) - 1)

\* the comparator of filterAndSortImages is negative: a goes before b
SM_before(a, b, currentSort) ==
    CASE currentSort = "name" -> localeBefore(a.filename, b.filename)
      [] currentSort = "type" ->
            \/ localeBefore(a.type, b.type)
            \/ a.type = b.type /\ localeBefore(a.filename, b.filename)
      [] currentSort = "size" ->
            widthOf(split(b.dimensions, "x")[1], 0) < widthOf(split(a.dimensions, "x")[1], 0)
      [] OTHER -> FALSE

\* Array.prototype.sort (stable), by insertion
RECURSIVE SM_sort(_, _)
SM_sort(xs, currentSort) ==
    IF xs = <<>> THEN <<>>
    ELSE LET rest == SM_sort(Tail(xs), currentSort)
             x == Head(xs)
             \* x goes in front of the first element it does not come after
             k == Cardinality({i \in 1..Len(rest) :
                     \A j \in 1..i : SM_before(rest[j], x, currentSort)})
         IN  SubSeq(rest, 1, k) \o <<x>> \o SubSeq(rest, k + 1, Len(rest))

\* filterAndSortImages: set each item's display, then re-append the visible
\* items in sorted order (the hidden ones stay in front, in their order)
filterAndSortImages(sb) ==
    LET shown(item) ==
            /\ includes(toLowerCase(item.filename), toLowerCase(sb.searchTerm))
            /\ \/ sb.currentFilter = "all"
               \/ sb.currentFilter = "jpg" /\ item.type \in {"jpg", "jpeg"}
               \/ item.type = sb.currentFilter
        items == [i \in 1..Len(sb.items) |-> [sb.items[i] EXCEPT !.display = shown(sb.items[i])]]
        hidden == SelectSeq(items, LAMBDA it : ~it.display)
        visible == SelectSeq(items, LAMBDA it : it.display)
    IN  [sb EXCEPT !.items = hidden \o SM_sort(visible, sb.currentSort)]

\* filterImages: the search box alone decides each item's display
filterImages(sb) ==
    [sb EXCEPT !.items = [i \in 1..Len(sb.items) |->
        [sb.items[i] EXCEPT !.display =
            includes(toLowerCase(sb.items[i].filename), toLowerCase(sb.searchTerm))]]]

\* addImage without its `if (this.images.has(imageData.url)) return`
addImageNoCheck(imageData, sb) ==
    filterAndSortImages(
        [sb EXCEPT !.images = Append(@, imageData),
                   !.loading = IF @ = "loading" THEN "absent" ELSE @,
                   !.items = Append(@, [url |-> imageData.url,
                                        filename |-> imageData.filename,
                                        dimensions |-> imageData.dimensions,
                                        type |-> getImageType(imageData.filename),
                                        display |-> TRUE])])

addImage(imageData, sb) ==
    IF imageData.url \in keys(sb.images) THEN sb
    ELSE filterAndSortImages(
        [sb EXCEPT !.images = Append(@, imageData),
                   !.loading = IF @ = "loading" THEN "absent" ELSE @,
                   !.items = Append(@, [url |-> imageData.url,
                                        filename |-> imageData.filename,
                                        dimensions |-> imageData.dimensions,
                                        type |-> getImageType(imageData.filename),
                                        display |-> TRUE])])

RECURSIVE addImages(_, _)
addImages(images, sb) ==
    IF images = <<>> THEN sb ELSE addImages(Tail(images), addImage(Head(images), sb))

\* updateLoadingState(false): the loading message becomes 'No images found'
\* or leaves; updateLoadingState(true) changes nothing
updateLoadingState(isLoading, sb) ==
    IF sb.loading = "loading" /\ ~isLoading
    THEN [sb EXCEPT !.loading = IF sb.images = <<>> THEN "no-images" ELSE "absent"]
    ELSE sb

\* the messages of the port: initialImages carries none, or two reports
PortMessages ==
    {[type |-> t, images |-> <<>>] : t \in {"clearImages", "scanComplete", "initialImages"}}
    \cup {[type |-> "newImage", images |-> <<d>>] : d \in SM_Data}
    \cup {[type |-> "initialImages", images |-> <<d, e>>] :
            d \in {ImageData(UrlA, "a.png", "100x80")}, e \in SM_Data}

\* this.port.onMessage listener
SM_onPortMessage(message) ==
    /\ sidebar' = CASE message.type \in {"initialImages", "newImage"} ->
                        addImages(message.images, sidebar)
                     [] message.type = "clearImages" -> SM_cleared(sidebar)
                     [] message.type = "scanComplete" -> updateLoadingState(FALSE, sidebar)
    /\ portLog' = [type |-> message.type, images |-> message.images, before |-> sidebar]
    /\ UNCHANGED requests

\* click on #refreshImages: requestImageScan
SM_requestImageScan ==
    /\ sidebar' = updateLoadingState(TRUE, SM_cleared(sidebar))
    /\ portLog' = NoPortMessage
    /\ UNCHANGED requests

\* click on a filter chip, change of #sortBy
SM_controlChange(filter, sort) ==
    /\ filter # sidebar.currentFilter \/ sort # sidebar.currentSort
    /\ filter = sidebar.currentFilter \/ sort = sidebar.currentSort
    /\ sidebar' = filterAndSortImages(
                      [sidebar EXCEPT !.currentFilter = filter, !.currentSort = sort])
    /\ portLog' = NoPortMessage
    /\ UNCHANGED requests

\* input in #searchImages
SM_searchInput(term) ==
    /\ term # sidebar.searchTerm
    /\ sidebar' = filterImages([sidebar EXCEPT !.searchTerm = term])
    /\ portLog' = NoPortMessage
    /\ UNCHANGED requests

InitSM == UtilsIdle /\ PageIdle /\ ScannerInit /\ PanelIdle /\ AuxIdle

NextSM ==
    \/ \E m \in PortMessages : SM_onPortMessage(m)
            /\ UNCHANGED <<utilVars, pageVars, scannerVars, markupVars, auxVars>>
    \/ SM_requestImageScan /\ UNCHANGED <<utilVars, pageVars, scannerVars, markupVars, auxVars>>
    \/ \E f \in {"all", "jpg"}, o \in {"name", "type", "size"} :
            SM_controlChange(f, o) /\ UNCHANGED <<utilVars, pageVars, scannerVars, markupVars, auxVars>>
    \/ \E t \in {"", "A"} :
            SM_searchInput(t) /\ UNCHANGED <<utilVars, pageVars, scannerVars, markupVars, auxVars>>

SpecSM == InitSM /\ [][NextSM]_vars

(***************************************************************************)
(* Specification SpecDL: the download click handlers (the .download-btn    *)
(* of content.js, SidebarManager.downloadImage), ImageUtils.bypassCORS and *)
(* the fetchImage relay of the background script.  A request is a click;   *)
(* its handler is suspended at a fetch, at response.blob() or at the       *)
(* callback of chrome.runtime.sendMessage.  The network settles each       *)
(* operation either way; the runtime invokes the sendMessage callback with *)
(* the relay's response, or with undefined when the port closes before a   *)
(* response was sent.                                                      *)
(***************************************************************************)
MaxRequests == 2

\* the click handler up to its first await: loading state on, bypassCORS
\* has issued the direct fetch
DL_click(origin, url) ==
    /\ Len(requests) < MaxRequests
    /\ requests' = Append(requests,
           [origin |-> origin, url |-> url, stage |-> "direct", loading |-> TRUE,
            direct |-> 1, failed |-> FALSE, messages |-> 0, relay |-> 0,
            outcome |-> "none", responses |-> <<>>,
            saved |-> FALSE, alerted |-> FALSE])

\* the catch branch of bypassCORS: the direct attempt has failed (history),
\* one fetchImage message goes to the background
DL_sendMessage(req) ==
    [req EXCEPT !.failed = TRUE, !.messages = @ + 1, !.stage = "queued"]

\* the rest of the click handler once bypassCORS has settled: with a Blob
\* the file is handed to the save facility; with anything else
\* URL.createObjectURL throws, and with a rejection the catch block runs:
\* alert; finally removes the loading state
DL_settle(req, result) ==
    [req EXCEPT !.stage = "done", !.loading = FALSE,
                !.saved = (result = "Blob"), !.alerted = (result # "Blob")]

\* the direct fetch settles
DL_fetchSettles(r, ok) ==
    /\ r \in 1..Len(requests) /\ requests[r].stage = "direct"
    /\ requests' = [requests EXCEPT ![r] =
           IF ok THEN [@ EXCEPT !.stage = "body"] ELSE DL_sendMessage(@)]

\* a bypassCORS that asks the relay whatever the direct fetch gave
DL_blobSettlesAlwaysRelay(r, ok) ==
    /\ r \in 1..Len(requests) /\ requests[r].stage = "body"
    /\ requests' = [requests EXCEPT ![r] =
           [@ EXCEPT !.failed = ~ok, !.messages = @ + 1, !.stage = "queued"]]

\* response.blob() of the direct fetch settles
DL_blobSettles(r, ok) ==
    /\ r \in 1..Len(requests) /\ requests[r].stage = "body"
    /\ requests' = [requests EXCEPT ![r] =
           IF ok THEN DL_settle(@, "Blob") ELSE DL_sendMessage(@)]

\* chrome.runtime.onMessage listener of the background: fetchImage
BG_onMessage(r) ==
    /\ r \in 1..Len(requests) /\ requests[r].stage = "queued"
    /\ requests' = [requests EXCEPT ![r] = [@ EXCEPT !.relay = @ + 1, !.stage = "relayFetch"]]

\* sendResponse({blob: ...}) or sendResponse({error: ...}) of the relay;
\* outcome records how its promise chain ended, responses what it sent
BG_sendResponse(req, kind) ==
    [req EXCEPT !.outcome = IF kind = "blob" THEN "ok" ELSE "failed",
                !.responses = Append(@, kind)]

\* the relay's fetch settles; a rejection goes to .catch, sendResponse({error}),
\* and the callback rejects the promise of bypassCORS
BG_fetchSettles(r, ok) ==
    /\ r \in 1..Len(requests) /\ requests[r].stage = "relayFetch"
    /\ requests' = [requests EXCEPT ![r] =
           IF ok THEN [@ EXCEPT !.stage = "relayBody"]
           ELSE DL_settle(BG_sendResponse(@, "error"), "rejected")]

\* a promise chain whose .catch is missing: a rejected response.blob() is
\* answered by nothing
BG_blobSettlesNoCatch(r, result) ==
    /\ r \in 1..Len(requests) /\ requests[r].stage = "relayBody"
    /\ requests' = [requests EXCEPT ![r] =
           IF result = "rejected" THEN [@ EXCEPT !.outcome = "failed", !.stage = "abandoned"]
           ELSE DL_settle(BG_sendResponse(@, "blob"), result)]

\* the relay's response.blob() settles; sendResponse({blob}) reaches the
\* callback with a Blob, or with the plain object its serialization leaves;
\* a rejection goes to .catch, sendResponse({error})
BG_blobSettles(r, result) ==
    /\ r \in 1..Len(requests) /\ requests[r].stage = "relayBody"
    /\ requests' = [requests EXCEPT ![r] =
           DL_settle(BG_sendResponse(@, IF result = "rejected" THEN "error" ELSE "blob"),
                     result)]

\* the port closes before the relay has answered: the callback runs with
\* undefined, `response.error` throws inside it, and the promise of
\* bypassCORS is left neither resolved nor rejected
DL_callbackUndefined(r) ==
    /\ r \in 1..Len(requests) /\ requests[r].stage \in {"queued", "relayFetch", "relayBody"}
    /\ requests' = [requests EXCEPT ![r] = [@ EXCEPT !.stage = "abandoned"]]

\* what lets request r advance
DL_progress(r) ==
    \/ \E ok \in BOOLEAN : DL_fetchSettles(r, ok)
    \/ \E ok \in BOOLEAN : DL_blobSettles(r, ok)
    \/ BG_onMessage(r)
    \/ \E ok \in BOOLEAN : BG_fetchSettles(r, ok)
    \/ \E result \in {"Blob", "Object", "rejected"} : BG_blobSettles(r, result)
    \/ DL_callbackUndefined(r)

DL_rest == UNCHANGED <<utilVars, pageVars, scannerVars, markupVars, sidebar, portLog, auxVars>>

InitDL == UtilsIdle /\ PageIdle /\ ScannerInit /\ PanelIdle /\ AuxIdle

NextDL ==
    \/ \E origin \in {"button", "panel"}, url \in {UrlA, UrlB, UrlPage} :
            DL_click(origin, url) /\ DL_rest
    \/ \E r \in 1..MaxRequests, ok \in BOOLEAN : DL_fetchSettles(r, ok) /\ DL_rest
    \/ \E r \in 1..MaxRequests, ok \in BOOLEAN : DL_blobSettles(r, ok) /\ DL_rest
    \/ \E r \in 1..MaxRequests : BG_onMessage(r) /\ DL_rest
    \/ \E r \in 1..MaxRequests, ok \in BOOLEAN : BG_fetchSettles(r, ok) /\ DL_rest
    \/ \E r \in 1..MaxRequests, result \in {"Blob", "Object", "rejected"} :
            BG_blobSettles(r, result) /\ DL_rest
    \/ \E r \in 1..MaxRequests : DL_callbackUndefined(r) /\ DL_rest

SpecDL == InitDL /\ [][NextDL]_vars

\* every operation a request waits for settles, and every message sent has
\* its callback invoked
SpecDLFair ==
    SpecDL /\ \A r \in 1..MaxRequests :
        WF_vars(DL_progress(r) /\ DL_rest)

NoDuplicates(s) == \A i, j \in 1..Len(s) : s[i] = s[j] => i = j

\* the sources of the discovered events (newImage messages, download buttons)
discovered(ob) ==
    LET n == SelectSeq(ob, LAMBDA m : m.type \in {"newImage", "button"})
    IN  [i \in 1..Len(n) |-> n[i].url]

(***************************************************************************)
(* The background relay between the content script and the side panels     *)
(* (src/unnamed/part_003, and part_004 which passes the data of a newImage *)
(* through securityManager.sanitizeData first).                            *)
(***************************************************************************)
MaxRelayed == 4

sensitiveFields == {"password", "credit_card", "ssn", "token"}

\* whether `if (v)` takes a string
Truthy(v) == v # ""

\* a sanitizeData that deletes the sensitive fields whatever they hold
sanitizeDataAnyValue(data) == [f \in (DOMAIN data) \ sensitiveFields |-> data[f]]

\* SecurityManager.sanitizeData: a copy, from which each sensitive field
\* with a truthy value is deleted
sanitizeData(data) ==
    [f \in {g \in DOMAIN data : ~(g \in sensitiveFields /\ Truthy(data[g]))} |-> data[f]]

\* what a content script sends as the data of a newImage
RelayData ==
    {ImageData(UrlA, "a.png", "100x80"), ImageData(UrlA, "a.png", "Unknown"),
     [url |-> UrlB, filename |-> "b.JPG", dimensions |-> "640x480", token |-> "t"]}

RelayMessages ==
    {[type |-> t] : t \in {"clearImages", "scanComplete"}}
    \cup {[type |-> "newImage", data |-> d] : d \in RelayData}

\* `for (const port of sidebarPorts) port.postMessage(message)`
broadcast(rl, message) ==
    [rl EXCEPT !.sent = [p \in Ports |-> IF p \in rl.ports THEN Append(@[p], message)
                                         ELSE @[p]]]

\* chrome.runtime.onConnect listener, for the port of sidebar p
BG_onConnect(p) ==
    /\ p \notin relay.ports
    /\ relay.handled < MaxRelayed
    /\ relay' = [relay EXCEPT
                    !.ports = @ \cup {p},
                    !.sent[p] = IF relay.images # <<>>
                                THEN <<[type |-> "initialImages", images |-> relay.images]>>
                                ELSE <<>>,
                    !.last = "connect"]

\* port.onDisconnect listener
BG_onDisconnect(p) ==
    /\ p \in relay.ports
    /\ relay' = [relay EXCEPT !.ports = @ \ {p}, !.sent[p] = <<>>, !.last = "disconnect"]

\* the newImage branch without its `if (!sidebarImages.has(imageData.url))`
BG_newImageNoCheck(rl, data) ==
    LET imageData == IF rl.version = "part_004" THEN sanitizeData(data) ELSE data
    IN  broadcast([rl EXCEPT !.images = Append(@, imageData)],
                  [type |-> "newImage", data |-> imageData])

\* the newImage branch of the onMessage listener
BG_newImage(rl, data) ==
    LET imageData == IF rl.version = "part_004" THEN sanitizeData(data) ELSE data
    IN  IF \E i \in 1..Len(rl.images) : rl.images[i].url = imageData.url THEN rl
        ELSE broadcast([rl EXCEPT !.images = Append(@, imageData)],
                       [type |-> "newImage", data |-> imageData])

\* the clearImages, newImage and scanComplete branches of the
\* chrome.runtime.onMessage listener
BG_handle(rl, message) ==
    CASE message.type = "clearImages" ->
            broadcast([rl EXCEPT !.images = <<>>], [type |-> "clearImages"])
      [] message.type = "newImage" -> BG_newImage(rl, message.data)
      [] message.type = "scanComplete" -> broadcast(rl, [type |-> "scanComplete"])

BG_relay(message) ==
    /\ relay.handled < MaxRelayed
    /\ relay' = [BG_handle(relay, message) EXCEPT !.handled = @ + 1, !.last = message.type]

RelayRest ==
    UNCHANGED <<toolVars, frames, styles, clock, timeouts, rescanLog, shot, tracker, errorHandler,
                utilVars, pageVars,
                scannerVars, markupVars, panelVars>>

InitRelay ==
    /\ UtilsIdle /\ PageIdle /\ ScannerInit /\ PanelIdle
    /\ frames = <<>> /\ styles = <<>> /\ ClockIdle /\ shot = NoShot /\ tracker = NoTracker
    /\ errorHandler = NoErrors /\ security = NoSecurity /\ optimizer = NoOptimizer
    /\ wire = NoWire
    /\ relay \in {[NoRelay EXCEPT !.version = v] : v \in {"part_003", "part_004"}}

NextRelay ==
    \/ \E p \in Ports : BG_onConnect(p) /\ RelayRest
    \/ \E p \in Ports : BG_onDisconnect(p) /\ RelayRest
    \/ \E m \in RelayMessages : BG_relay(m) /\ RelayRest

SpecRelay == InitRelay /\ [][NextRelay]_vars

(***************************************************************************)
(* The screenshot request: ContextSnapPopup.captureScreenshot (part_001)   *)
(* asks the content script, whose listener starts                          *)
(* captureOptimizedScreenshot (content.js), which asks the background      *)
(* (part_004).  The listener of the content script is `(message) => {...}`:*)
(* it takes no sendResponse and returns undefined.                         *)
(***************************************************************************)
MaxShots == 3

Undefined == [undefined |-> TRUE]

\* the catch and finally blocks of captureScreenshot
PP_failed(sh) ==
    [sh EXCEPT !.feedback = "error", !.loading = FALSE, !.disabled = FALSE, !.stage = "idle"]

\* captureScreenshot from its start to `await chrome.tabs.query`
PP_captureScreenshot ==
    /\ shot.stage = "idle" /\ ~shot.disabled
    /\ shot.clicks < MaxShots
    /\ shot' = [shot EXCEPT !.clicks = @ + 1, !.loading = TRUE, !.disabled = TRUE,
                            !.stage = "query"]

\* chrome.tabs.query has answered: without a tab the function throws, with
\* one it sends captureScreenshot to the content script of the tab
PP_tabsQuery(tab) ==
    /\ shot.stage = "query"
    /\ shot' = IF ~tab THEN PP_failed(shot)
               ELSE [shot EXCEPT !.stage = "sent", !.toContent = @ + 1]

\* the listener of the content script on captureScreenshot: it calls
\* captureOptimizedScreenshot, which runs up to its
\* `await chrome.runtime.sendMessage`, and returns
CS_onCaptureScreenshot ==
    /\ shot.toContent > 0
    /\ shot' = [shot EXCEPT !.toContent = @ - 1, !.returned = @ + 1,
                            !.toBackground = @ + 1]

\* captureScreenshot after `await chrome.tabs.sendMessage`
PP_afterResponse(sh, response) ==
    IF response # Undefined /\ response.success
    THEN [sh EXCEPT !.screenshotCount = @ + 1, !.feedback = "success",
                    !.loading = FALSE, !.disabled = FALSE, !.stage = "idle"]
    ELSE PP_failed(sh)

\* chrome.tabs.sendMessage settles once every listener has returned without
\* answering: it resolves with undefined, or rejects because the port
\* closed before a response was received
PP_sendMessageSettles(rejected) ==
    /\ shot.stage = "sent" /\ shot.returned > 0
    /\ shot' = IF rejected THEN PP_failed([shot EXCEPT !.returned = @ - 1])
               ELSE PP_afterResponse([shot EXCEPT !.returned = @ - 1], Undefined)

\* the captureScreenshot branch of the background: captureVisibleTab, then
\* optimizeScreenshot, which needs a document; sendResponse({dataUrl}) or,
\* from the catch, sendResponse({error})
BG_captureScreenshot(optimized) ==
    /\ shot.toBackground > 0
    /\ shot' = [shot EXCEPT !.toBackground = @ - 1,
                            !.fromBackground =
                                Append(@, IF optimized THEN "dataUrl" ELSE "error")]

\* captureOptimizedScreenshot after its await: with a dataUrl it optimizes
\* and processScreenshot stores the result
CS_captureOptimizedScreenshot ==
    /\ shot.fromBackground # <<>>
    /\ shot' = [shot EXCEPT !.fromBackground = Tail(@),
                            !.stored = IF Head(shot.fromBackground) = "dataUrl"
                                       THEN @ + 1 ELSE @]

ShotRest ==
    UNCHANGED <<toolVars, frames, styles, clock, timeouts, rescanLog, relay, tracker, errorHandler,
                utilVars, pageVars,
                scannerVars, markupVars, panelVars>>

InitShot ==
    /\ UtilsIdle /\ PageIdle /\ ScannerInit /\ PanelIdle
    /\ frames = <<>> /\ styles = <<>> /\ ClockIdle /\ BackgroundIdle

NextShot ==
    \/ PP_captureScreenshot /\ ShotRest
    \/ \E tab \in BOOLEAN : PP_tabsQuery(tab) /\ ShotRest
    \/ CS_onCaptureScreenshot /\ ShotRest
    \/ \E rejected \in BOOLEAN : PP_sendMessageSettles(rejected) /\ ShotRest
    \/ \E optimized \in BOOLEAN : BG_captureScreenshot(optimized) /\ ShotRest
    \/ CS_captureOptimizedScreenshot /\ ShotRest

SpecShot == InitShot /\ [][NextShot]_vars

(***************************************************************************)
(* IntelligentTracker of src/js/content.js and the listener of the         *)
(* background (part_004) that its batches reach.  processBatch is async:   *)
(* called from trackEvent it runs up to its await, so the copy and the     *)
(* reset of this.events happen inside the trackEvent call.                 *)
(***************************************************************************)
BatchSize == 50

MaxEvents == 110

importantEvents == {"click", "scroll", "hover", "focus"}

\* shouldTrack: sampled is what `Math.random() < rate` gave
shouldTrack(eventType, sampled) == eventType \in importantEvents \/ sampled

\* a processBatch that resets this.events only after the send has settled
TR_processBatchResetLate(tr) ==
    [tr EXCEPT !.batches = Append(@, tr.events),
               !.sending = Append(@, [action |-> "process-behavior-batch",
                                      events |-> tr.events])]

\* processBatch up to its await
TR_processBatch(tr) ==
    [tr EXCEPT !.events = <<>>,
               !.batches = Append(@, tr.events),
               !.sending = Append(@, [action |-> "process-behavior-batch",
                                      events |-> tr.events])]

TR_trackEvent(eventType, sampled) ==
    /\ tracker.interactionCount < MaxEvents
    /\ tracker' =
           IF ~shouldTrack(eventType, sampled) THEN tracker
           ELSE LET pushed == [tracker EXCEPT
                                  !.events = Append(@, tracker.interactionCount + 1),
                                  !.interactionCount = @ + 1]
                IN  IF Len(pushed.events) >= BatchSize THEN TR_processBatch(pushed)
                    ELSE pushed

\* the branch of the background's onMessage listener a message runs into:
\* the listener tests message.type only
BG_branch(message) ==
    IF "type" \in DOMAIN message
          /\ message.type \in {"fetchImage", "clearImages", "newImage", "scanComplete",
                                "captureScreenshot", "getMetrics"}
    THEN message.type
    ELSE "none"

\* the background takes a message of the tracker
BG_onTrackerMessage ==
    /\ tracker.sending # <<>>
    /\ tracker' = [tracker EXCEPT !.sending = Tail(@),
                                  !.branches = Append(@, BG_branch(Head(tracker.sending)))]

TrackerRest ==
    UNCHANGED <<toolVars, frames, styles, clock, timeouts, rescanLog, relay, shot, errorHandler,
                utilVars, pageVars,
                scannerVars, markupVars, panelVars>>

InitTracker ==
    /\ UtilsIdle /\ PageIdle /\ ScannerInit /\ PanelIdle
    /\ frames = <<>> /\ styles = <<>> /\ ClockIdle /\ BackgroundIdle

NextTracker ==
    \/ \E eventType \in {"click", "mousemove"}, sampled \in BOOLEAN :
            TR_trackEvent(eventType, sampled) /\ TrackerRest
    \/ BG_onTrackerMessage /\ TrackerRest

SpecTracker == InitTracker /\ [][NextTracker]_vars

(***************************************************************************)
(* ErrorHandler of the background (part_004).  clock is Date.now(),        *)
(* counted from the construction of the handler.                           *)
(***************************************************************************)
maxErrors == 10

errorWindow == 60000

cooldown == 300000

MaxHandled == 12

\* Math.floor(now / this.errorWindow)
windowOf(now) == now \div errorWindow

\* handleError; the contextKey it computes is used nowhere
EH_handleError(context) ==
    /\ errorHandler.errorCount < MaxHandled
    /\ LET counted == [errorHandler EXCEPT
                          !.errorCount = @ + 1,
                          !.handled[context][windowOf(clock)] = @ + 1,
                          !.logged = @ + 1]
       IN  errorHandler' =
              IF counted.errorCount >= maxErrors
              THEN [counted EXCEPT !.circuitBreaker[context] = clock + cooldown]
              ELSE counted
    /\ UNCHANGED clock

\* time passes, half a window at a time
EH_timePasses ==
    /\ windowOf(clock + errorWindow \div 2) <= MaxWindow
    /\ clock' = clock + errorWindow \div 2
    /\ UNCHANGED errorHandler

ErrorsRest ==
    UNCHANGED <<toolVars, frames, styles, timeouts, rescanLog, relay, shot, tracker, utilVars, pageVars,
                scannerVars, markupVars, panelVars>>

InitErrors ==
    /\ UtilsIdle /\ PageIdle /\ ScannerInit /\ PanelIdle
    /\ frames = <<>> /\ styles = <<>> /\ ClockIdle /\ BackgroundIdle

NextErrors ==
    \/ \E context \in ErrorContexts : EH_handleError(context) /\ ErrorsRest
    \/ EH_timePasses /\ ErrorsRest

SpecErrors == InitErrors /\ [][NextErrors]_vars

(***************************************************************************)
(* SecurityManager of the background (part_004) and chrome.storage.local.  *)
(* Time is counted in seconds, so the retention is the code's              *)
(* dataRetentionDays * 24 * 60 * 60, times 1000 in the code.              *)
(* The storage holds what the program stores: the flags and counters of    *)
(* the popup (saveState), which have no timestamp, and screenshot_<t>      *)
(* entries of processScreenshot with timestamp t.                          *)
(***************************************************************************)
dataRetentionDays == 30

retention == dataRetentionDays * 24 * 60 * 60

MaxAdvances == 2

MaxScreenshots == 3

\* the key of a storage entry
Key(name, at) == [name |-> name, at |-> at]

Flag(value) == [kind |-> "flag", value |-> value]

Screenshot(timestamp) == [kind |-> "screenshot", timestamp |-> timestamp]

\* a filter that also takes the entries stored exactly at the cutoff
isOldOrAtCutoff(value, cutoff) ==
    /\ value.kind = "screenshot"
    /\ value.timestamp # 0
    /\ value.timestamp <= cutoff

\* `value.timestamp && value.timestamp < cutoff`
isOld(value, cutoff) ==
    /\ value.kind = "screenshot"
    /\ value.timestamp # 0
    /\ value.timestamp < cutoff

\* storage.local.set of one entry
storageSet(storage, key, value) ==
    [k \in DOMAIN storage \cup {key} |-> IF k = key THEN value ELSE storage[k]]

\* storage.local.remove
storageRemove(storage, removed) == [k \in DOMAIN storage \ removed |-> storage[k]]

\* the setInterval callback calls cleanupOldData, which runs up to its
\* first await
SM_cleanupOldData ==
    /\ security.cleanup.stage \in {"idle", "done"}
    /\ security' = [security EXCEPT !.cleanup = [stage |-> "get",
                                                  cutoff |-> security.now - retention,
                                                  keysToDelete |-> {},
                                                  before |-> <<>>, after |-> <<>>]]

\* storage.local.get(null) resolves: the filter, then the remove is issued
SM_getResolves ==
    /\ security.cleanup.stage = "get"
    /\ LET result == security.storage
           keysToDelete == {k \in DOMAIN result : isOld(result[k], security.cleanup.cutoff)}
       IN  security' = [security EXCEPT
               !.cleanup.keysToDelete = keysToDelete,
               !.cleanup.stage = IF keysToDelete # {} THEN "remove" ELSE "done",
               !.cleanup.before = IF keysToDelete # {} THEN <<>> ELSE result,
               !.cleanup.after = IF keysToDelete # {} THEN <<>> ELSE result]

\* storage.local.remove takes effect and resolves
SM_removeResolves ==
    /\ security.cleanup.stage = "remove"
    /\ LET left == storageRemove(security.storage, security.cleanup.keysToDelete)
       IN  security' = [security EXCEPT !.storage = left,
                                        !.cleanup.stage = "done",
                                        !.cleanup.before = security.storage,
                                        !.cleanup.after = left]

\* processScreenshot of a content script stores screenshot_<now>
CS_processScreenshot ==
    /\ Cardinality({k \in DOMAIN security.storage : k.name = "screenshot"}) < MaxScreenshots
    /\ security' = [security EXCEPT
           !.storage = storageSet(@, Key("screenshot", security.now), Screenshot(security.now))]

\* saveState of the popup stores its flags
PP_saveState(isEnabled) ==
    security' = [security EXCEPT !.storage = storageSet(@, Key("enabled", 0), Flag(isEnabled))]

SM_timePasses ==
    /\ security.advanced < MaxAdvances
    /\ security' = [security EXCEPT !.now = @ + retention \div 2, !.advanced = @ + 1]

\* what a caller hands to sanitizeData
SanitizeInputs ==
    {[url |-> UrlA, filename |-> "a.png"],
     [url |-> UrlA, token |-> "t"],
     [url |-> UrlA, token |-> ""],
     [url |-> "", password |-> "p", ssn |-> ""]}

SM_sanitizeData(data) ==
    security' = [security EXCEPT
        !.sanitized = [called |-> TRUE, data |-> data, result |-> sanitizeData(data)]]

SecurityRest ==
    UNCHANGED <<optimizer, wire, frames, styles, clock, timeouts, rescanLog, relay, shot, tracker,
                errorHandler, utilVars, pageVars, scannerVars, markupVars, panelVars>>

\* the storage outlives the sessions: it starts with what earlier sessions
\* left, screenshots stored up to `retention` seconds ago
InitSecurity ==
    /\ UtilsIdle /\ PageIdle /\ ScannerInit /\ PanelIdle
    /\ frames = <<>> /\ styles = <<>> /\ ClockIdle
    /\ relay = NoRelay /\ shot = NoShot /\ tracker = NoTracker /\ errorHandler = NoErrors
    /\ optimizer = NoOptimizer /\ wire = NoWire
    /\ \E stamps \in SUBSET {1, retention \div 2} :
          security = [NoSecurity EXCEPT
              !.now = retention,
              !.storage = [k \in {Key("screenshot", t) : t \in stamps}
                              |-> Screenshot(k.at)]]

NextSecurity ==
    \/ SM_cleanupOldData /\ SecurityRest
    \/ SM_getResolves /\ SecurityRest
    \/ SM_removeResolves /\ SecurityRest
    \/ CS_processScreenshot /\ SecurityRest
    \/ \E isEnabled \in BOOLEAN : PP_saveState(isEnabled) /\ SecurityRest
    \/ SM_timePasses /\ SecurityRest
    \/ \E data \in SanitizeInputs : SM_sanitizeData(data) /\ SecurityRest

SpecSecurity == InitSecurity /\ [][NextSecurity]_vars

(***************************************************************************)
(* ScreenshotOptimizer of src/js/content.js.  this.quality is a double:    *)
(* starting from 0.8, `quality -= 0.1` gives 0.7000000000000001,           *)
(* 0.6000000000000001, 0.5000000000000001, 0.40000000000000013,            *)
(* 0.30000000000000016, 0.20000000000000015.  A quality is kept as its     *)
(* tenths and whether the double lies above that many tenths.              *)
(***************************************************************************)
maxSize == 1048576

maxDimension == 1920

MaxCalls == 3

Quality(tenths, above) == [tenths |-> tenths, above |-> above]

\* `quality -= 0.1`
lowerQuality(quality) == Quality(quality.tenths - 1, TRUE)

\* `quality > 0.3`
aboveFloor(quality) == quality.tenths > 3 \/ (quality.tenths = 3 /\ quality.above)

\* Math.round of the positive fraction n / d
Round(n, d) == (2 * n + d) \div (2 * d)

\* calculateOptimalSize (also PerformanceOptimizer's in part_004):
\* ratio = Math.min(maxDimension / width, maxDimension / height)
calculateOptimalSize(width, height, maxDim) ==
    LET longer == IF width >= height THEN width ELSE height
    IN  [width |-> Round(width * maxDim, longer), height |-> Round(height * maxDim, longer)]

\* getDataUrlSize: Math.ceil((dataUrl.length * 3) / 4)
getDataUrlSize(length) == (length * 3 + 3) \div 4

\* the length of canvas.toDataURL('image/jpeg', quality): the encoder gives
\* a picture of the given detail that many characters per tenth of quality
toDataURL(detail, quality) == detail * quality.tenths

\* the while loop of the onload handler: the quality it ends with
RECURSIVE compress(_, _)
compress(detail, quality) ==
    IF getDataUrlSize(toDataURL(detail, quality)) > maxSize /\ aboveFloor(quality)
    THEN compress(detail, lowerQuality(quality))
    ELSE quality

\* the pictures handed to optimizeScreenshot
Pictures ==
    {[width |-> d[1], height |-> d[2], detail |-> t] :
        d \in {<<100, 100>>, <<1920, 1080>>, <<3840, 2160>>, <<1000, 3>>},
        t \in {50000, 180000, 400000, 600000, 1000000}}

\* optimizeScreenshot up to the resolve of its promise
OPT_optimizeScreenshot(img) ==
    /\ optimizer.calls < MaxCalls
    /\ LET size == calculateOptimalSize(img.width, img.height, maxDimension)
           quality == compress(img.detail, optimizer.quality)
       IN  optimizer' =
              [quality |-> quality,
               calls |-> optimizer.calls + 1,
               last |-> [called |-> TRUE, img |-> img, size |-> size,
                         first |-> optimizer.quality,
                         length |-> toDataURL(img.detail, quality)]]

OptimizerRest ==
    UNCHANGED <<security, wire, frames, styles, clock, timeouts, rescanLog, relay, shot, tracker,
                errorHandler, utilVars, pageVars, scannerVars, markupVars, panelVars>>

InitOptimizer ==
    /\ UtilsIdle /\ PageIdle /\ ScannerInit /\ PanelIdle
    /\ frames = <<>> /\ styles = <<>> /\ ClockIdle /\ BackgroundIdle

NextOptimizer == \E img \in Pictures : OPT_optimizeScreenshot(img) /\ OptimizerRest

SpecOptimizer == InitOptimizer /\ [][NextOptimizer]_vars

(***************************************************************************)
(* The side panel end to end: SidebarManager (src/js/sidebar.js) on port   *)
(* 1, the background of part_003, and the ContextSnapDownloader of the     *)
(* active tab.  A message waits in its queue until its listener runs.      *)
(***************************************************************************)
MaxOpens == 2

MaxQueue == 4

\* ImageUtils.generateFileName(src) of the sources a scan may report
fileNameOf == [u \in Candidates |-> generateFileName(u, "0")]

\* the message chrome.runtime.sendMessage carries for an event of the scan;
\* the dimensions play no part here
toBackground(m) ==
    IF m.type = "newImage"
    THEN [type |-> "newImage", data |-> ImageData(m.url, fileNameOf[m.url], "Unknown")]
    ELSE [type |-> m.type]

\* the message as the listener of the panel's port takes it
toPanel(message) ==
    [type |-> message.type,
     images |-> CASE message.type = "newImage" -> <<message.data>>
                  [] message.type = "initialImages" -> message.images
                  [] OTHER -> <<>>]

\* the SidebarManager right after its constructor
SM_constructed ==
    [images |-> <<>>, items |-> <<>>, loading |-> "loading",
     currentFilter |-> "all", currentSort |-> "name", searchTerm |-> ""]

\* the queues have room for one more scan
WireQuiet == Len(wire.toBackground) <= 1 /\ Len(relay.sent[1]) <= 1

PN_aux == UNCHANGED <<frames, styles, clock, timeouts, rescanLog, shot, tracker, errorHandler,
                      security, optimizer, utilVars, markupVars>>

\* what a scan that starts in this step sends before its first await
PN_sends(started) ==
    wire' = [wire EXCEPT !.toBackground =
                @ \o (IF started THEN [i \in 1..Len(outbox') |-> toBackground(outbox'[i])]
                      ELSE <<>>)]

\* the content script is injected into the active tab
PN_constructor ==
    /\ CS_constructor /\ PN_sends(TRUE)
    /\ UNCHANGED <<relay, panelVars>> /\ PN_aux

PN_initializeState ==
    /\ CS_initializeState /\ PN_sends(stored # "false")
    /\ UNCHANGED <<relay, panelVars>> /\ PN_aux

\* the popup switches the extension on or off
PN_toggleExtension(on) ==
    /\ WireQuiet
    /\ CS_onMessage([type |-> "toggleExtension", enabled |-> on]) /\ PN_sends(on)
    /\ UNCHANGED <<relay, panelVars>> /\ PN_aux

\* a scanImagesForSidebar message reaches the tab; without a content script
\* there is no listener and the message is lost
PN_contentReceives ==
    /\ wire.toContent > 0
    /\ IF constructed
       THEN /\ WireQuiet
            /\ CS_onMessage([type |-> "scanImagesForSidebar", enabled |-> TRUE])
            /\ wire' = [wire EXCEPT
                   !.toContent = @ - 1,
                   !.toBackground =
                       @ \o (IF enabled
                             THEN [i \in 1..Len(outbox') |-> toBackground(outbox'[i])]
                             ELSE <<>>)]
       ELSE /\ wire' = [wire EXCEPT !.toContent = @ - 1]
            /\ UNCHANGED <<pageVars, scannerVars>>
    /\ UNCHANGED <<relay, panelVars>> /\ PN_aux

\* the scan goes on after an await
PN_scanStep ==
    /\ CS_scanStep
    /\ wire' = [wire EXCEPT !.toBackground =
                    @ \o [i \in 1..(Len(outbox') - Len(outbox)) |->
                             toBackground(outbox'[Len(outbox) + i])]]
    /\ UNCHANGED <<relay, panelVars>> /\ PN_aux

\* chrome.runtime.onConnect listener of the background for the panel's port
PN_backgroundConnects ==
    /\ wire.open /\ wire.connecting
    /\ relay' = [relay EXCEPT
                    !.ports = @ \cup {1},
                    !.sent[1] = IF relay.images # <<>>
                                THEN <<[type |-> "initialImages", images |-> relay.images]>>
                                ELSE <<>>,
                    !.last = "connect"]
    /\ wire' = [wire EXCEPT !.connecting = FALSE, !.toContent = @ + 1]
    /\ UNCHANGED <<pageVars, scannerVars, panelVars>> /\ PN_aux

\* chrome.runtime.onMessage listener of the background
PN_backgroundReceives ==
    /\ wire.toBackground # <<>>
    /\ Len(relay.sent[1]) < MaxQueue
    /\ relay' = [BG_handle(relay, Head(wire.toBackground))
                    EXCEPT !.last = Head(wire.toBackground).type]
    /\ wire' = [wire EXCEPT !.toBackground = Tail(@)]
    /\ UNCHANGED <<pageVars, scannerVars, panelVars>> /\ PN_aux

\* port.onMessage listener of the panel
PN_panelReceives ==
    /\ wire.open /\ relay.sent[1] # <<>>
    /\ SM_onPortMessage(toPanel(Head(relay.sent[1])))
    /\ relay' = [relay EXCEPT !.sent[1] = Tail(@)]
    /\ wire' = [wire EXCEPT !.awaiting = @ /\ Head(relay.sent[1]).type # "scanComplete"]
    /\ UNCHANGED <<pageVars, scannerVars>> /\ PN_aux

\* click on #refreshImages: requestImageScan, whose tabs.query callback
\* sends scanImagesForSidebar to the active tab
PN_refresh ==
    /\ wire.open /\ wire.toContent = 0 /\ WireQuiet
    /\ SM_requestImageScan
    /\ wire' = [wire EXCEPT !.toContent = @ + 1, !.awaiting = TRUE]
    /\ UNCHANGED <<relay, pageVars, scannerVars>> /\ PN_aux

\* the panel is closed: its port disconnects
PN_close ==
    /\ wire.open /\ ~wire.connecting
    /\ relay' = [relay EXCEPT !.ports = @ \ {1}, !.sent[1] = <<>>, !.last = "disconnect"]
    /\ wire' = [wire EXCEPT !.open = FALSE, !.awaiting = FALSE]
    /\ UNCHANGED <<pageVars, scannerVars, panelVars>> /\ PN_aux

\* the panel is opened: the SidebarManager constructor connects and
\* requests a scan
PN_open ==
    /\ ~wire.open /\ wire.opens < MaxOpens /\ wire.toContent = 0
    /\ sidebar' = SM_constructed
    /\ portLog' = NoPortMessage
    /\ wire' = [wire EXCEPT !.open = TRUE, !.connecting = TRUE, !.toContent = @ + 1,
                            !.awaiting = TRUE, !.opens = @ + 1]
    /\ UNCHANGED <<relay, requests, pageVars, scannerVars>> /\ PN_aux

InitPanel ==
    /\ UtilsIdle /\ PanelIdle /\ AuxIdle /\ PageInit({ImgA, DivBg}) /\ ScannerInit

\* what runs by itself: listeners of delivered messages and continuations
PN_progress ==
    \/ PN_constructor
    \/ PN_initializeState
    \/ PN_contentReceives
    \/ PN_scanStep
    \/ PN_backgroundConnects
    \/ PN_backgroundReceives
    \/ PN_panelReceives

\* a step that takes the first message off the panel's port: the steps of
\* PN_panelReceives and no others
PN_portDelivers ==
    /\ wire.open /\ relay.sent[1] # <<>>
    /\ relay' = [relay EXCEPT !.sent[1] = Tail(@)]
    /\ wire' = [wire EXCEPT !.awaiting = @ /\ Head(relay.sent[1]).type # "scanComplete"]

\* the steps of the content script and of the background that run by
\* themselves
PN_delivers ==
    \/ PN_constructor
    \/ PN_initializeState
    \/ PN_contentReceives
    \/ PN_scanStep
    \/ PN_backgroundConnects
    \/ PN_backgroundReceives

NextPanel ==
    \/ PN_constructor
    \/ PN_initializeState
    \/ \E on \in BOOLEAN : PN_toggleExtension(on)
    \/ PN_contentReceives
    \/ PN_scanStep
    \/ PN_backgroundConnects
    \/ PN_backgroundReceives
    \/ PN_panelReceives
    \/ PN_refresh
    \/ PN_close
    \/ PN_open

SpecPanel == InitPanel /\ [][NextPanel]_vars

\* The panel opened once, on a page of img elements, with the extension
\* switched by the stored flag alone; every message sent is delivered and
\* every continuation runs.
InitPanelOnce ==
    /\ UtilsIdle /\ PanelIdle /\ AuxIdle /\ PageInit({ImgA, ImgPage}) /\ ScannerInit

NextPanelOnce ==
    \/ PN_progress
    \/ PN_refresh
    \/ PN_open

SpecPanelFair ==
    /\ InitPanelOnce /\ [][NextPanelOnce]_vars
    /\ WF_vars(PN_delivers)
    /\ WF_<<relay, wire>>(PN_portDelivers)

(***************************************************************************)
(* Two tabs, each with its ContextSnapDownloader, and the one background   *)
(* (part_003).  A content script runs scanImagesForSidebar at its          *)
(* construction and after mutations; the scan sends clearImages, then a    *)
(* newImage for each img of its page, one await apart, then scanComplete.  *)
(* The background's listener ignores the sender of a message; the model    *)
(* keeps the tab in the message to tell the scans apart.                   *)
(***************************************************************************)
MaxScans == 3

\* the img sources of the page of each tab
TabImages == <<(<<UrlA, UrlC>>), (<<UrlB>>)>>

tabOf(url) == CHOOSE t \in Tabs : url \in Range(TabImages[t])

\* scanImagesForSidebar of tab t up to its first await
TB_scanImagesForSidebar(t) ==
    /\ wire.tabs[t] = <<>>
    /\ wire.scans < MaxScans
    /\ LET message == [type |-> "clearImages", tab |-> t]
       IN  wire' = [wire EXCEPT !.tabs[t] = <<message>>,
                               !.toBackground = Append(@, message),
                               !.scans = @ + 1]
    /\ UNCHANGED relay

\* the scan of tab t goes on after an await
TB_scanStep(t) ==
    /\ wire.tabs[t] # <<>>
    /\ LET k == Len(wire.tabs[t])
           src == TabImages[t][k]
           message ==
               IF k <= Len(TabImages[t])
               THEN [type |-> "newImage", tab |-> t,
                     data |-> ImageData(src, generateFileName(src, "0"), "Unknown")]
               ELSE [type |-> "scanComplete", tab |-> t]
       IN  wire' = [wire EXCEPT
               !.tabs[t] = IF message.type = "scanComplete" THEN <<>> ELSE Append(@, message),
               !.toBackground = Append(@, message)]
    /\ UNCHANGED relay

TabsRest == UNCHANGED <<pageVars, scannerVars, panelVars>> /\ PN_aux

InitTabs == UtilsIdle /\ PageIdle /\ ScannerInit /\ PanelIdle /\ AuxIdle

NextTabs ==
    \/ \E t \in Tabs : TB_scanImagesForSidebar(t) /\ TabsRest
    \/ \E t \in Tabs : TB_scanStep(t) /\ TabsRest
    \/ PN_backgroundReceives

SpecTabs == InitTabs /\ [][NextTabs]_vars

(***************************************************************************)
(* C1: within one scan epoch at most one discovered event is produced per  *)
(* distinct source string, whatever mix of scan steps, mutation callbacks, *)
(* processExistingImages and canvas mouseup events produced them.          *)
(***************************************************************************)
C1_OneEventPerSource ==
    NoDuplicates(discovered(outbox))

(***************************************************************************)
(* C2: two scanImagesForSidebar runs in a row on an unchanged DOM each     *)
(* emit one clear followed by the same set of discovered sources, each     *)
(* source exactly once per run.                                            *)
(***************************************************************************)
C2_RescanSameSet ==
    (prevScan.known /\ isComplete(outbox) /\ lastMutation.kind = "none") =>
        /\ outbox[1].type = "clearImages"
        /\ Range(urlsOf(outbox)) = Range(prevScan.urls)
        /\ NoDuplicates(urlsOf(outbox))
        /\ NoDuplicates(prevScan.urls)

(***************************************************************************)
(* C4: in every sidebar scan that runs, clearImages comes first and once,  *)
(* newImage messages follow it, and scanComplete comes last and once; a    *)
(* scan still suspended has sent no scanComplete, a finished one has.      *)
(***************************************************************************)
C4_MessageOrder ==
    /\ ~constructed => outbox = <<>>
    /\ outbox # <<>> =>
          /\ outbox[1].type = "clearImages"
          /\ \A i \in 2..Len(outbox) : outbox[i].type \in {"newImage", "scanComplete"}
          /\ \A i \in 1..Len(outbox) :
                outbox[i].type = "scanComplete" => i = Len(outbox) /\ ~scan.active
          /\ ~scan.active => isComplete(outbox)

C4_Witness ==
    /\ prevScan.known
    /\ isComplete(outbox)
    /\ Len(urlsOf(outbox)) >= 2

(***************************************************************************)
(* C5: every clear signal comes with a reset of both ledger sets: right    *)
(* after the reset that belongs to the latest clear signal, both           *)
(* processedElements and processedSources are empty.                       *)
(***************************************************************************)
C5_ClearResetsBoth ==
    outbox # <<>> => clearLedger.elements = {} /\ clearLedger.sources = {}

(***************************************************************************)
(* C6: a canvas whose toDataURL throws never aborts a scan: no scan is     *)
(* ended by an exception before it has gone through the remaining elements *)
(* and reached its last line.                                              *)
(***************************************************************************)
C6_TaintedCanvasHarmless ==
    ~scan.thrown

(***************************************************************************)
(* C7: after a completed full scan, an inserted img whose src is an image  *)
(* URL not yet in the ledger gets exactly one new discovered event once    *)
(* the observer callback has handled the record; a record that moves a     *)
(* node in place gets none.                                                *)
(***************************************************************************)
C7_InsertEmitsOnce ==
    LET m == lastMutation
    IN  (m.handled /\ enabled /\ dom[m.node].tag = "IMG") =>
            /\ (m.kind = "insert" /\ ~m.seenSrc /\ possible[dom[m.node].src])
                   => count(outbox, dom[m.node].src) = m.emitted + 1
            /\ m.kind = "move" => count(outbox, dom[m.node].src) = m.emitted

(***************************************************************************)
(* C8: processing started by a mutation never starts a new epoch: no clear *)
(* signal and no ledger reset is ever owed to the mutation observer.       *)
(***************************************************************************)
C8_MutationKeepsEpoch ==
    ~clearLedger.fromObserver

(***************************************************************************)
(* C9: every source in processedSources has had a discovered event in the  *)
(* current epoch.                                                          *)
(***************************************************************************)
C9_MarkedWasEmitted ==
    \A s \in processedSources : count(outbox, s) >= 1

(***************************************************************************)
(* C10: isBase64Image returns true exactly for                             *)
(* data:image/<subtype>;base64,<non-empty body of base64 characters>; it   *)
(* accepts "data:image/png;base64,iVBORw0KGgo=" and rejects the empty      *)
(* body, the missing ;base64, marker, and empty or null input.             *)
(***************************************************************************)
B64WellFormed(in) ==
    /\ ~in.isNull
    /\ in.head = "data:image/"
    /\ in.subtype \in {"png", "svg+xml", "x-icon"}
    /\ in.marker = ";base64,"
    /\ in.body \in {"iVBORw0KGgo=", "a/b+c=", "notbase64"}

C10_Base64Strict ==
    b64Result.called =>
        /\ b64Result.value = B64WellFormed(b64Input)
        /\ (b64Input.str = "data:image/png;base64,iVBORw0KGgo=" /\ ~b64Input.isNull
                => b64Result.value)
        /\ (b64Input.str \in {"data:image/png;base64,", "data:image/png,notbase64", ""}
                => ~b64Result.value)

C10_Witness ==
    /\ b64Result.called
    /\ b64Input.str = "data:image/png;base64,"
    /\ ~b64Result.value

(***************************************************************************)
(* C11: generateFileName returns the last path segment unchanged when it   *)
(* ends in a recognized image extension, in any letter case                *)
(* (".../photo.JPG" gives "photo.JPG"); for a segment without one          *)
(* (".../noext") and for a URL that does not parse it returns a name       *)
(* ending in a default image extension, never the bare segment.            *)
(***************************************************************************)
C11_FileNameFromUrl ==
    (fnResult.called /\ ~startsWith(fnInput.url, "data:image")) =>
        LET parses == fnInput.head \in {"https://site.com", "http://cdn.site.com"}
            ext == fnInput.segment \in {"photo.JPG", "photo.png", "a.jpeg"}
            none == fnInput.segment \in {"noext", "file.txt", "jpg", ""}
        IN  /\ (parses /\ ext) => fnResult.value = fnInput.segment
            /\ (~parses \/ none) =>
                  /\ fnResult.value # fnInput.segment
                  /\ \/ endsWith(fnResult.value, ".png")
                     \/ endsWith(fnResult.value, ".jpg")
            /\ (fnInput.version = "utils.js" /\ (~parses \/ none)) =>
                  fnResult.value = "image_" \o fnInput.now \o ".png"

C11_Witness ==
    /\ fnResult.called
    /\ fnInput.url = "https://site.com/path/photo.JPG"
    /\ fnInput.version = "utils.js"
    /\ fnResult.value = "photo.JPG"

(***************************************************************************)
(* C12: an exception raised while one element is processed is confined to  *)
(* that element: when a scan met an exception and the page did not change  *)
(* since the scan began, every element of the page was still processed and *)
(* the scan reached its end.                                               *)
(***************************************************************************)
C12_ErrorConfined ==
    (scan.thrown /\ lastMutation = NoMutation) =>
        /\ inDom \subseteq processedElements
        /\ \E i \in 1..Len(outbox) : outbox[i] = Msg("finished", "")

(***************************************************************************)
(* C13: while the button variant is disabled (enabled = false after a      *)
(* toggleExtension message with enabled false, or after initializeState    *)
(* read a stored false) the page holds no download button: no scan,        *)
(* mutation callback or canvas event creates one until enabled is true     *)
(* again.                                                                  *)
(***************************************************************************)
C13_DisabledNoButtons ==
    (constructed /\ ~enabled) =>
        /\ buttons = {}
        /\ \A j \in 1..Len(floats) : ~floats[j].button

\* disabled after buttons had been placed; the mutation callback has since
\* processed an inserted img and left it without container or button
C13_Witness ==
    /\ constructed /\ ~enabled
    /\ wrapped # {}
    /\ lastMutation.handled
    /\ lastMutation.node \in processedElements \ wrapped
    /\ dom[lastMutation.node] = ImgA
    /\ buttons = {}

(***************************************************************************)
(* C14: the side panel's image store is an idempotent set keyed by source: *)
(* a newImage or initialImages entry whose url is already stored leaves    *)
(* the store and the rendered item list unchanged, a new url adds exactly  *)
(* one item, and clearImages leaves the store empty with no rendered item. *)
(***************************************************************************)
C14_IdempotentStore ==
    LET before == portLog.before
        reported == {portLog.images[i].url : i \in 1..Len(portLog.images)}
        new == reported \ keys(before.images)
        urlSeq(xs) == [i \in 1..Len(xs) |-> xs[i].url]
    IN  /\ NoDuplicates(urlSeq(sidebar.items))
        /\ NoDuplicates(urlSeq(sidebar.images))
        /\ Range(urlSeq(sidebar.items)) = keys(sidebar.images)
        /\ portLog.type \in {"newImage", "initialImages"} =>
              /\ new = {} => sidebar = before
              /\ keys(sidebar.images) = keys(before.images) \cup new
              /\ Len(sidebar.items) = Len(before.items) + Cardinality(new)
              /\ SubSeq(sidebar.images, 1, Len(before.images)) = before.images
        /\ portLog.type = "clearImages" =>
              sidebar.images = <<>> /\ sidebar.items = <<>>

\* a second report of a stored url, with other dimensions, changed nothing
C14_Witness ==
    /\ portLog.type = "newImage"
    /\ portLog.images = <<ImageData(UrlA, "a.png", "Unknown")>>
    /\ ImageData(UrlA, "a.png", "100x80") \in Range(sidebar.images)
    /\ sidebar = portLog.before
    /\ Len(sidebar.items) = 2

(***************************************************************************)
(* C15: a download request makes a single direct fetch and, only if that   *)
(* attempt failed, a single fetch through the background relay; nothing is *)
(* retried, and the relay is not contacted when the direct fetch           *)
(* succeeded.                                                              *)
(***************************************************************************)
C15_OneAttemptOneFallback ==
    \A r \in 1..Len(requests) :
        LET req == requests[r]
        IN  /\ req.direct = 1
            /\ req.messages = (IF req.failed THEN 1 ELSE 0)
            /\ req.relay <= req.messages

\* a request served by the relay after its direct fetch had failed
C15_Witness ==
    \E r \in 1..Len(requests) :
        /\ requests[r].stage = "done" /\ requests[r].saved
        /\ requests[r].direct = 1 /\ requests[r].messages = 1 /\ requests[r].relay = 1

(***************************************************************************)
(* C16: every download request eventually finishes, with the file handed   *)
(* to the save facility or with a failure notice shown, and with the       *)
(* button's loading state removed, whatever the direct fetch and the relay *)
(* do (a relay that answers with no response object included).             *)
(***************************************************************************)
C16_DownloadFinishes ==
    \A r \in 1..MaxRequests :
        (Len(requests) >= r) ~>
            (/\ Len(requests) >= r
             /\ requests[r].saved \/ requests[r].alerted
             /\ ~requests[r].loading)

(***************************************************************************)
(* C17: after an element has been visited, an observed change of its src,  *)
(* style or data-src attribute to a qualifying source not yet in the       *)
(* ledger makes the incremental path extract from that element again and   *)
(* emit exactly one discovered event for the new source; the visited mark  *)
(* does not suppress it.                                                   *)
(***************************************************************************)
C17_AttributeChangeEmits ==
    LET m == lastMutation
    IN  (m.kind = "attribute" /\ m.handled /\ m.visited /\ enabled) =>
            \A u \in m.fresh :
                Len(SelectSeq(outbox, LAMBDA x : x.type = "button" /\ x.url = u)) = 1

(***************************************************************************)
(* C18: a full scan visits every element that lies inside a shadow root    *)
(* attached to any element of the document, so that a qualifying source    *)
(* exposed only inside a shadow tree is discovered: once a full scan has   *)
(* reached its end on an unchanged page, each such element is marked       *)
(* visited and its sources are in the ledger.                              *)
(***************************************************************************)
C18_ShadowTreesVisited ==
    (/\ ~scan.active /\ lastMutation = NoMutation
     /\ \E i \in 1..Len(outbox) : outbox[i] = Msg("finished", "")) =>
        \A e \in inDom :
            dom[e].inShadow =>
                /\ e \in processedElements
                /\ Range(sourcesOf[dom[e]]) \subseteq processedSources

(***************************************************************************)
(* C19: the extraction rules form a union: the snapshot encode of a canvas *)
(* is examined even when the canvas exposes no attribute-derived source.   *)
(* Once a full scan has reached its end on an unchanged page, the snapshot *)
(* of every canvas of the document whose encode succeeds is in the ledger. *)
(***************************************************************************)
C19_ExtractionIsUnion ==
    (/\ ~scan.active /\ lastMutation = NoMutation
     /\ \E i \in 1..Len(outbox) : outbox[i] = Msg("finished", "")) =>
        \A e \in inDom :
            (dom[e].tag = "CANVAS" /\ ~dom[e].tainted /\ ~dom[e].inShadow) =>
                CanvasDataUrl \in processedSources

(***************************************************************************)
(* C20: every source for which a discovered event is produced satisfies    *)
(* isPossibleImageSource: no candidate taken from an attribute or from an  *)
(* inline or computed background url() is emitted without passing that     *)
(* filter.                                                                 *)
(***************************************************************************)
C20_EmittedPassFilter ==
    \A i \in 1..Len(outbox) :
        outbox[i].type = "button" => isPossibleImageSource(outbox[i].url)

(***************************************************************************)
(* C21: a failure to reach the document of one iframe skips that iframe    *)
(* only.  The step of scanAllImages that meets a cross-origin frame keeps  *)
(* the ledger, the buttons and everything emitted so far and moves on to   *)
(* the next frame; no frame, readable or not, ends the scan; and the step  *)
(* after the last frame runs the style-tag pass and logs the last line.    *)
(***************************************************************************)
C21_FrameFailureSkipsOneFrame ==
    [][LET nodes == ID_querySelectorAll(scan.n0)
           j == scan.k - Len(nodes) + 1
           stepped == scan.active /\ scan' # scan /\ ~(scan'.active /\ scan'.k = 0)
       IN  /\ (stepped /\ j \in 1..Len(frames)) =>
                  /\ scan' = [scan EXCEPT !.k = @ + 1]
                  /\ Len(outbox') >= Len(outbox)
                  /\ SubSeq(outbox', 1, Len(outbox)) = outbox
                  /\ processedSources \subseteq processedSources'
                  /\ ~frames[j].sameOrigin =>
                         UNCHANGED <<outbox, processedSources, processedElements, markupVars>>
           /\ (stepped /\ j = Len(frames) + 1) =>
                  /\ ~scan'.active /\ ~scan'.thrown
                  /\ outbox'[Len(outbox')] = Msg("finished", "")
                  /\ \A i \in 1..Len(styles) :
                         Range(styleUrls(styles[i])) \subseteq processedSources'
      ]_vars

\* a scan came to its end past a cross-origin frame: the frame after it and
\* the style element were visited
C21_Witness ==
    /\ outbox # <<>> /\ outbox[Len(outbox)] = Msg("finished", "")
    /\ ~frames[1].sameOrigin
    /\ frames[2] = Frame(TRUE, ImgLoading)
    /\ -2 \in processedElements /\ -1 \notin processedElements
    /\ \A e \in Elems : dom[e] = ImgA
    /\ UrlBg \in processedSources
    /\ enabled

(***************************************************************************)
(* C22: within one full scan the discovered events come in traversal       *)
(* order: when e1 precedes e2 in document order, a source that only e1     *)
(* exposes is emitted before a source that only e2 exposes.  Stated for a  *)
(* finished scanImagesForSidebar on a document no script changed since the *)
(* scan began.                                                             *)
(***************************************************************************)
C22_EmittedInDocumentOrder ==
    LET urls == urlsOf(outbox)
        first(u) == CHOOSE i \in 1..Len(urls) : urls[i] = u /\ \A j \in 1..(i - 1) : urls[j] # u
        exposed(e) == UNION {{c.src : c \in Range(SB_callsOf[dom[e]][phase])} :
                                phase \in {"img", "bg", "canvas", "svg", "base64"}}
    IN  (isComplete(outbox) /\ lastMutation.kind = "none") =>
            \A e1, e2 \in inDom :
                e1 < e2 =>
                    \A u1 \in (exposed(e1) \ exposed(e2)) \cap Range(urls),
                       u2 \in (exposed(e2) \ exposed(e1)) \cap Range(urls) :
                        first(u1) < first(u2)

(***************************************************************************)
(* C23: between two full-scan resets the ledger only grows: a step that    *)
(* takes a member out of processedSources or processedElements is the      *)
(* start of scanAllImages, which empties both.                             *)
(***************************************************************************)
C23_LedgerGrowsWithinEpoch ==
    [][\/ /\ processedSources \subseteq processedSources'
          /\ processedElements \subseteq processedElements'
       \/ /\ processedSources' = {} /\ processedElements' = {}
          /\ scan' = [StartScan EXCEPT !.n0 = Len(floats)]
          /\ outbox' = <<>>
      ]_vars

\* the extension was switched off after a scan and the observer has since
\* processed an inserted element: the ledger kept its members and grew
C23_Witness ==
    /\ constructed /\ ~enabled /\ ~scan.active
    /\ lastMutation.handled /\ lastMutation.kind = "insert"
    /\ lastMutation.node \in processedElements
    /\ Cardinality(processedElements) >= 3
    /\ Cardinality(processedSources) >= 2

C25_RelayOncePerEpoch ==
    /\ \A p \in Ports :
           LET q == relay.sent[p]
           IN  \A i, j \in 1..Len(q) :
                   (i < j /\ q[i].type = "newImage" /\ q[j].type = "newImage"
                          /\ q[i].data.url = q[j].data.url)
                       => \E k \in (i + 1)..(j - 1) : q[k].type = "clearImages"
    /\ \A i, j \in 1..Len(relay.images) : i # j => relay.images[i].url # relay.images[j].url
    /\ relay.last = "clearImages" =>
           /\ relay.images = <<>>
           /\ \A p \in relay.ports :
                  /\ relay.sent[p] # <<>>
                  /\ relay.sent[p][Len(relay.sent[p])].type = "clearImages"

\* both sidebars are connected; a url was relayed, arrived again without
\* being relayed, and was relayed again after a clear
C25_Witness ==
    /\ relay.ports = Ports
    /\ relay.handled = 4
    /\ \A p \in Ports :
           /\ Len(relay.sent[p]) = 3
           /\ relay.sent[p][1].type = "newImage"
           /\ relay.sent[p][2].type = "clearImages"
           /\ relay.sent[p][3] = relay.sent[p][1]

(***************************************************************************)
(* C26: for every fetchImage request the background sends exactly one      *)
(* response, {blob} on success or {error} on failure, never both and never *)
(* none: a request the relay has not taken, or whose fetch is still on its *)
(* way, has no response yet; once the promise chain of the relay has ended *)
(* there is exactly one, {blob} when fetch and response.blob() succeeded   *)
(* and {error} when either was rejected.                                   *)
(***************************************************************************)
C26_OneResponsePerFetch ==
    \A r \in 1..Len(requests) :
        LET req == requests[r]
        IN  /\ Len(req.responses) <= 1
            /\ req.relay = 0 => req.outcome = "none"
            /\ req.outcome = "none" => req.responses = <<>>
            /\ req.outcome = "ok" => req.responses = <<"blob">>
            /\ req.outcome = "failed" => req.responses = <<"error">>
            /\ (req.relay = 1 /\ req.stage = "done") => req.outcome # "none"

\* one request answered with {blob}, another with {error} after its
\* response.blob() was rejected
C26_Witness ==
    /\ Len(requests) = 2
    /\ requests[1].responses = <<"blob">> /\ requests[1].stage = "done"
    /\ requests[2].responses = <<"error">> /\ requests[2].stage = "done"
    /\ requests[2].alerted

(***************************************************************************)
(* C27: when the popup requests a screenshot and the capture in content    *)
(* script and background succeeds, the popup receives a success response,  *)
(* increments screenshotCount by one and shows success feedback: once the  *)
(* popup is idle again and every screenshot it asked for has been stored,  *)
(* screenshotCount is the number of its requests and the feedback shown    *)
(* last is the success feedback.                                           *)
(***************************************************************************)
C27_CaptureCounted ==
    (shot.clicks > 0 /\ shot.stage = "idle" /\ shot.stored = shot.clicks) =>
        /\ shot.screenshotCount = shot.clicks
        /\ shot.feedback = "success"

(***************************************************************************)
(* C28: after every trackEvent call the buffer of the IntelligentTracker   *)
(* holds fewer than 50 events; the 50th recorded event sends the whole     *)
(* buffer as one batch and empties it in the same step; so the batches     *)
(* sent so far followed by the buffer are the recorded events, each once   *)
(* and in recording order, also while a send is in flight.                 *)
(***************************************************************************)
C28_BatchesPartitionEvents ==
    /\ Len(tracker.events) < BatchSize
    /\ \A b \in 1..Len(tracker.batches) : Len(tracker.batches[b]) = BatchSize
    /\ Flatten(tracker.batches) \o tracker.events
           = [n \in 1..tracker.interactionCount |-> n]

\* two batches went out, the second is still on its way to the background,
\* and events recorded since then wait in the buffer
C28_Witness ==
    /\ Len(tracker.batches) = 2
    /\ Len(tracker.sending) = 1
    /\ Len(tracker.branches) = 1
    /\ Len(tracker.events) = 3

(***************************************************************************)
(* C29: every message kind a component sends has a handling branch in the  *)
(* component that receives it; in particular each behaviour batch sent by  *)
(* IntelligentTracker.processBatch runs into a branch of the background's  *)
(* message handler.                                                        *)
(***************************************************************************)
C29_EveryMessageHasBranch ==
    \A i \in 1..Len(tracker.branches) : tracker.branches[i] # "none"

(***************************************************************************)
(* C30: the ErrorHandler places a context in the circuit breaker, with a   *)
(* cooldown of five minutes, only when at least maxErrors errors of that   *)
(* context were handled within the window of errorWindow ms in which it    *)
(* is placed; errors of other contexts or of earlier windows do not count. *)
(* A context in the breaker therefore has at least maxErrors handled       *)
(* errors in the window its cooldown started in.                           *)
(***************************************************************************)
C30_BreakerPerContextAndWindow ==
    \A c \in ErrorContexts :
        errorHandler.circuitBreaker[c] >= 0
            => errorHandler.handled[c][windowOf(errorHandler.circuitBreaker[c] - cooldown)]
                   >= maxErrors

(***************************************************************************)
(* C31: the object SecurityManager.sanitizeData returns has none of the    *)
(* keys password, credit_card, ssn, token, whatever their values; every    *)
(* other top-level field of the argument is in it unchanged.               *)
(***************************************************************************)
C31_NoSensitiveKeyLeft ==
    security.sanitized.called =>
        LET data == security.sanitized.data
            result == security.sanitized.result
        IN  /\ DOMAIN result \cap sensitiveFields = {}
            /\ \A f \in (DOMAIN data) \ sensitiveFields :
                   f \in DOMAIN result /\ result[f] = data[f]

(***************************************************************************)
(* C32: when cleanupOldData has completed, the storage its remove left     *)
(* holds no entry with a timestamp before the cutoff (30 days before the   *)
(* call), and every entry that is newer or has no timestamp is in it       *)
(* unchanged; a call that found nothing to delete left the storage as it   *)
(* was.                                                                    *)
(***************************************************************************)
C32_CleanupRemovesExactlyOld ==
    security.cleanup.stage = "done" =>
        LET before == security.cleanup.before
            after == security.cleanup.after
            cutoff == security.cleanup.cutoff
        IN  /\ \A k \in DOMAIN after :
                   ~(after[k].kind = "screenshot" /\ after[k].timestamp < cutoff)
            /\ \A k \in DOMAIN before :
                   (before[k].kind # "screenshot" \/ before[k].timestamp >= cutoff)
                       => k \in DOMAIN after /\ after[k] = before[k]

\* a cleanup removed an old screenshot and kept a flag, a screenshot stored
\* exactly at the cutoff and one stored while the cleanup was under way
C32_Witness ==
    /\ security.cleanup.stage = "done"
    /\ security.cleanup.keysToDelete # {}
    /\ \E k \in DOMAIN security.cleanup.after :
           security.cleanup.after[k].kind = "flag"
    /\ \E k \in DOMAIN security.cleanup.after :
           /\ security.cleanup.after[k].kind = "screenshot"
           /\ security.cleanup.after[k].timestamp = security.cleanup.cutoff
    /\ \E k \in DOMAIN security.cleanup.after :
           /\ security.cleanup.after[k].kind = "screenshot"
           /\ security.cleanup.after[k].timestamp > security.cleanup.cutoff + retention \div 2

(***************************************************************************)
(* C33: the data URL optimizeScreenshot returns never exceeds maxSize      *)
(* (1 MB, measured by getDataUrlSize), for every picture and after every   *)
(* sequence of earlier calls.                                              *)
(***************************************************************************)
C33_ResultWithinMaxSize ==
    optimizer.last.called => getDataUrlSize(optimizer.last.length) <= maxSize

(***************************************************************************)
(* C34: every optimizeScreenshot call starts its compression at the        *)
(* configured quality 0.8, whatever the earlier calls compressed.          *)
(***************************************************************************)
C34_StartsAtConfiguredQuality ==
    optimizer.last.called => optimizer.last.first = Quality(8, FALSE)

(***************************************************************************)
(* C35: calculateOptimalSize never upscales: a picture whose width and     *)
(* height are both at most maxDimension (1920) keeps its width and height. *)
(***************************************************************************)
C35_NeverUpscales ==
    (/\ optimizer.last.called
     /\ optimizer.last.img.width <= maxDimension
     /\ optimizer.last.img.height <= maxDimension)
        => /\ optimizer.last.size.width = optimizer.last.img.width
           /\ optimizer.last.size.height = optimizer.last.img.height

(***************************************************************************)
(* C36: repeated full scans of a page that its scripts do not change do    *)
(* not pile up injected markup: after every finished scan there is one     *)
(* img-container with its preview per discovered source, as after the      *)
(* first scan, so no two containers show the same source.                  *)
(***************************************************************************)
C36_OneContainerPerSource ==
    (/\ ~scan.active
     /\ outbox # <<>>
     /\ outbox[Len(outbox)] = Msg("finished", ""))
        => NoDuplicates([j \in 1..Len(floats) |-> floats[j].src])

(***************************************************************************)
(* C40: the side panel shows its 'No images found on this page' notice     *)
(* only while it holds no image: whatever the order of the clearImages,    *)
(* newImage and scanComplete messages, the notice is never displayed       *)
(* together with an image item.                                            *)
(***************************************************************************)
C40_NoticeOnlyWhenEmpty ==
    sidebar.loading = "no-images" => sidebar.images = <<>> /\ sidebar.items = <<>>

(***************************************************************************)
(* C37: every scan request of the side panel (requestImageScan, which      *)
(* shows the loading message) is eventually answered by a scanComplete     *)
(* message that the panel takes, whatever the state of the content script, *)
(* enabled = false included.                                               *)
(***************************************************************************)
C37_ScanRequestAnswered ==
    (wire.awaiting /\ constructed) ~> ~wire.awaiting

(***************************************************************************)
(* C38: once every message in flight is delivered and no scan is running,  *)
(* the urls a connected side panel holds are the urls of the background's  *)
(* sidebarImages cache, for every interleaving of connects, refresh        *)
(* clicks, scans and disconnects.                                          *)
(***************************************************************************)
C38_PanelAgreesWithCache ==
    (/\ wire.open /\ ~wire.connecting /\ 1 \in relay.ports
     /\ wire.toContent = 0 /\ wire.toBackground = <<>> /\ relay.sent[1] = <<>>
     /\ ~scan.active)
        => keys(sidebar.images) = keys(relay.images)

(***************************************************************************)
(* C39: the images the background caches come from the scan of one tab,    *)
(* also when the content scripts of two tabs scan at the same time: no     *)
(* newImage of one tab joins the images of the other tab's scan, and no    *)
(* clearImages of one tab discards them, so that when the scanComplete of  *)
(* a tab arrives the cache holds the images of that tab's page.            *)
(***************************************************************************)
C39_CacheOfOneTab ==
    /\ \A i, j \in 1..Len(relay.images) :
           tabOf(relay.images[i].url) = tabOf(relay.images[j].url)
    /\ (wire.toBackground # <<>> /\ Head(wire.toBackground).type = "scanComplete")
           => Range(TabImages[Head(wire.toBackground).tab]) \subseteq keys(relay.images)

====
